---- MODULE Spec2Model ----
(***************************************************************************)
(* Leaf detection, region management and detection scheduling of the       *)
(* plant-disease sprayer: app/video_detection.py (LightweightLeafSelector, *)
(* VideoCaptureService), app/leaf_detector.py (MobileNetSSDLeafDetector,   *)
(* AutomaticLeafDetectionService), the routes of app/routes.py that write  *)
(* to the store or spray, and app/gpio_control.py.                         *)
(*                                                                         *)
(* Time is time.time() in tenths of a second.  Optional values are         *)
(* sequences: None is <<>> and a value v is <<v>>.  Every handler is one   *)
(* action; the handler's inputs (what the camera, the detector and the     *)
(* classifier answer) are the action's parameters.                         *)
(***************************************************************************)
EXTENDS Integers, Sequences, FiniteSets, TLC

VARIABLES
    now,                       \* time.time(), tenths of a second
    cap,                       \* VideoCaptureService.cap: "none" | "opened" | "unopened"
    is_running,                \* VideoCaptureService.is_running
    current_frame,             \* VideoCaptureService.current_frame (optional frame)
    selected_regions,          \* VideoCaptureService.selected_regions
    automatic_mode,            \* VideoCaptureService.automatic_mode
    last_auto_detection_time,  \* VideoCaptureService.last_auto_detection_time
    last_click_time,           \* LightweightLeafSelector.last_click_time
    current_detections,        \* AutomaticLeafDetectionService.current_detections
    last_detection_time,       \* AutomaticLeafDetectionService.last_detection_time
    db,                        \* row counts of the captures, detections, actions tables
    config,                    \* current_app.config: thresholds and spray durations
    call,                      \* the last operation: its name, arguments and return value
    effects,                   \* the external calls the last operation made, in order
    detector,                  \* MobileNetSSDLeafDetector: is_initialized and net
    flight,                    \* the get_frame call each frame loop is in the middle of
    seen,                      \* what has happened so far (observation)
    probes,                    \* which of the two observation logs are kept
    checkLog,                  \* the last scheduler checks (observation)
    clickLog                   \* the last two selector click attempts (observation)

vars == <<now, cap, is_running, current_frame, selected_regions, automatic_mode,
          last_auto_detection_time, last_click_time, current_detections,
          last_detection_time, db, config, detector, flight, seen, call, effects, probes,
          checkLog, clickLog>>

None == <<>>
Some(v) == <<v>>

Max(a, b) == IF a >= b THEN a ELSE b
Min(a, b) == IF a <= b THEN a ELSE b

(***************************************************************************)
(* Program constants.                                                      *)
(***************************************************************************)
region_size == 150               \* LightweightLeafSelector.region_size
click_cooldown == 10             \* 1.0 s
MinRegionSide == 100             \* create_region_from_click: minimum width/height
auto_detection_interval == 30    \* 3.0 s
detection_interval == 20         \* 2.0 s
CameraWidth == 640
CameraHeight == 480
DefaultLowThreshold == 30
DefaultHighThreshold == 70
DefaultSprayLowMs == 1000
DefaultSprayHighMs == 3000
confidence_threshold == 5000     \* 0.5, confidences in ten-thousandths
LeafClassId == 1                 \* detect_leaves: class id of a leaf
MinDetectedSide == 50            \* detect_leaves: sides must be greater
MinContourArea == 1000           \* _fallback_leaf_detection: area must be greater
ConfidenceScale == 10000         \* _fallback_leaf_detection: area / 10000
MaxFallbackConfidence == 8000    \* 0.8

(***************************************************************************)
(* Bounds of the model.                                                    *)
(***************************************************************************)
ClockStart == 40        \* the wall clock reading when the process starts
MaxElapsed == 35        \* the clock runs to ClockStart + MaxElapsed
MaxSeverity == 4        \* SpecDecide: severities and thresholds 0..MaxSeverity
MaxDuration == 2        \* SpecDecide: spray durations 0..MaxDuration ms
MaxFrame == 200         \* SpecRegion: frame widths and heights up to MaxFrame
CoordStep == 25         \* SpecRegion: the grid of click coordinates
MaxChecks == 3          \* checkLog keeps the last MaxChecks scheduler checks
MaxFrameId == 1         \* the camera delivers frames 1..MaxFrameId
MaxBatch == 3           \* candidates in one automatic batch
MaxStoreBatch == 2      \* SpecStore: candidates in one automatic batch
MaxRecords == 3         \* SpecStore: a route writes only while captures < MaxRecords
MaxLeaves == 2          \* SpecDetector: leaves a variant finds in a frame
MaxLoops == 2           \* frame loops running at the same time
MaxIndex == 2           \* region_index is drawn from -MaxIndex..MaxIndex

\* durations are counted in units of 1/DurationUnit of a millisecond, so
\* that a configured duration need not be a whole number of milliseconds
DurationUnit == 2

\* n milliseconds
Ms(n) == n * DurationUnit

\* int(v) of a duration v: Python's int() drops the fraction
int(v) == IF v >= 0 THEN (v \div DurationUnit) * DurationUnit
                    ELSE -(((-v) \div DurationUnit) * DurationUnit)

DefaultConfig ==
    [low |-> DefaultLowThreshold, high |-> DefaultHighThreshold,
     dur_low |-> Ms(DefaultSprayLowMs), dur_high |-> Ms(DefaultSprayHighMs)]

(***************************************************************************)
(* The state after construction (module import): VideoCaptureService(),    *)
(* LightweightLeafSelector(), AutomaticLeafDetectionService().             *)
(***************************************************************************)
NoCall == [op |-> "init"]

\* MobileNetSSDLeafDetector(): no net, not initialized
DetectorInit == [is_initialized |-> FALSE, net |-> "none"]

\* the frame loops (one per client of /video_feed) and a loop between two
\* get_frame calls
Loops == 1..MaxLoops
Idle == [pc |-> "idle"]

\* a constructor that starts the detection timer at the construction time
ServiceInitTimerNow ==
    /\ cap = "none"
    /\ is_running = FALSE
    /\ current_frame = None
    /\ selected_regions = <<>>
    /\ automatic_mode = FALSE
    /\ last_auto_detection_time = now
    /\ last_click_time = 0
    /\ current_detections = <<>>
    /\ last_detection_time = 0
    /\ db = [captures |-> 0, detections |-> 0, actions |-> 0]
    /\ detector = DetectorInit
    /\ flight = [l \in Loops |-> Idle]
    /\ seen = [init_failed |-> FALSE]
    /\ call = [op |-> "init"]
    /\ effects = <<>>
    /\ checkLog = [win |-> <<>>, last_true |-> [video |-> <<>>, service |-> <<>>]]
    /\ clickLog = <<>>

ServiceInit ==
    /\ cap = "none"
    /\ is_running = FALSE
    /\ current_frame = None
    /\ selected_regions = <<>>
    /\ automatic_mode = FALSE
    /\ last_auto_detection_time = 0
    /\ last_click_time = 0
    /\ current_detections = <<>>
    /\ last_detection_time = 0
    /\ db = [captures |-> 0, detections |-> 0, actions |-> 0]
    /\ detector = DetectorInit
    /\ flight = [l \in Loops |-> Idle]
    /\ seen = [init_failed |-> FALSE]
    /\ call = NoCall
    /\ effects = <<>>
    /\ checkLog = [win |-> <<>>, last_true |-> [video |-> None, service |-> None]]
    /\ clickLog = <<>>

serviceVars == <<cap, is_running, current_frame, selected_regions, automatic_mode,
                 last_auto_detection_time, last_click_time, current_detections,
                 last_detection_time, db>>

(***************************************************************************)
(* time.time() between two operations: the clock moves on by d.            *)
(***************************************************************************)
Tick(d) ==
    /\ d > 0
    /\ now + d <= ClockStart + MaxElapsed
    /\ now' = now + d
    /\ UNCHANGED <<serviceVars, config, detector, flight, seen, call, effects,
                   probes, checkLog, clickLog>>

(***************************************************************************)
(* ActionDecisionPolicy.                                                   *)
(***************************************************************************)
\* routes.decide_action with `<=` for `<` (a boundary slip)
decide_action_inclusive(cfg, severity) ==
    IF severity <= cfg.low THEN <<"none", 0>>
    ELSE IF severity <= cfg.high THEN <<"spray_short", int(cfg.dur_low)>>
    ELSE <<"spray_long", int(cfg.dur_high)>>

\* routes.decide_action(severity)
decide_action(cfg, severity) ==
    IF severity < cfg.low THEN <<"none", 0>>
    ELSE IF severity < cfg.high THEN <<"spray_short", int(cfg.dur_low)>>
    ELSE <<"spray_long", int(cfg.dur_high)>>

\* VideoCaptureService._decide_action(severity); cfgOk is FALSE when reading
\* current_app.config raises, which the method answers with ("none", 0)
_decide_action(cfg, severity, cfgOk) ==
    IF ~cfgOk THEN <<"none", 0>>
    ELSE IF severity < cfg.low THEN <<"none", 0>>
    ELSE IF severity < cfg.high THEN <<"spray_short", cfg.dur_low>>
    ELSE <<"spray_long", cfg.dur_high>>

\* a call of routes.decide_action
DecideRoute(severity) ==
    /\ call' = [op |-> "decide_action", severity |-> severity, cfgOk |-> TRUE,
                ret |-> decide_action(config, severity)]
    /\ UNCHANGED <<now, serviceVars, config, detector, flight, seen, effects,
                   probes, checkLog, clickLog>>

\* a call of VideoCaptureService._decide_action
DecideVideo(severity, cfgOk) ==
    /\ call' = [op |-> "_decide_action", severity |-> severity, cfgOk |-> cfgOk,
                ret |-> _decide_action(config, severity, cfgOk)]
    /\ UNCHANGED <<now, serviceVars, config, detector, flight, seen, effects,
                   probes, checkLog, clickLog>>

DecideSeverities == 0..MaxSeverity
\* configured durations of whole milliseconds
DecideDurations == {Ms(d) : d \in 0..MaxDuration}

InitDecide ==
    /\ now = ClockStart
    /\ ServiceInit
    /\ probes = {}
    /\ config \in [low : DecideSeverities, high : DecideSeverities,
                   dur_low : DecideDurations, dur_high : DecideDurations]

NextDecide ==
    \/ \E s \in DecideSeverities : DecideRoute(s)
    \/ \E s \in DecideSeverities, ok \in BOOLEAN : DecideVideo(s, ok)

SpecDecide == InitDecide /\ [][NextDecide]_vars

IsDecideCall == call.op \in {"decide_action", "_decide_action"}

\* C1: for every severity and every configured pair low <= high, both
\* decision functions answer (none, 0) below the low threshold,
\* (spray_short, dur_low) from the low threshold up to, not including, the
\* high one, and (spray_long, dur_high) from the high threshold on.
C1_DecisionBands ==
    (IsDecideCall /\ call.cfgOk /\ config.low <= config.high) =>
        /\ call.severity < config.low => call.ret = <<"none", 0>>
        /\ (config.low <= call.severity /\ call.severity < config.high)
              => call.ret = <<"spray_short", config.dur_low>>
        /\ call.severity >= config.high
              => call.ret = <<"spray_long", config.dur_high>>

\* a severity equal to the low threshold, below the high one, was decided by
\* the automatic flow's function and took the higher action
C1_Witness ==
    /\ call.op = "_decide_action"
    /\ call.cfgOk
    /\ config.low < config.high
    /\ call.severity = config.low
    /\ config.dur_low > 0
    /\ call.ret = <<"spray_short", config.dur_low>>

(***************************************************************************)
(* LightweightLeafSelector.                                                *)
(***************************************************************************)
Frame(id, w, h) == [id |-> id, w |-> w, h |-> h, annotated |-> FALSE]

\* create_region_from_click without the clamp of x2, y2 to the frame
RegionBoxUnclamped(frame, click_x, click_y) ==
    LET half_size == region_size \div 2
        x1 == Max(0, click_x - half_size)
        y1 == Max(0, click_y - half_size)
        x2 == click_x + half_size
        y2 == click_y + half_size
    IN  IF (x2 - x1) < MinRegionSide \/ (y2 - y1) < MinRegionSide
        THEN None
        ELSE Some(<<x1, y1, x2, y2>>)

\* create_region_from_click, after the cooldown check: the region bounds
\* and the minimum size
RegionBox(frame, click_x, click_y) ==
    LET half_size == region_size \div 2
        x1 == Max(0, click_x - half_size)
        y1 == Max(0, click_y - half_size)
        x2 == Min(frame.w, click_x + half_size)
        y2 == Min(frame.h, click_y + half_size)
    IN  IF (x2 - x1) < MinRegionSide \/ (y2 - y1) < MinRegionSide
        THEN None
        ELSE Some(<<x1, y1, x2, y2>>)

\* create_region_from_click that starts the cooldown only when it returns
\* a box
create_region_from_click_on_success(lct, t, frame, click_x, click_y) ==
    IF t - lct < click_cooldown
    THEN [ret |-> None, last_click_time |-> lct, passed |-> FALSE]
    ELSE [ret |-> RegionBox(frame, click_x, click_y),
          last_click_time |-> IF RegionBox(frame, click_x, click_y) = None
                              THEN lct ELSE t,
          passed |-> TRUE]

\* create_region_from_click that still drops a click made exactly one
\* cooldown after the last one
create_region_from_click_inclusive(lct, t, frame, click_x, click_y) ==
    IF t - lct <= click_cooldown
    THEN [ret |-> None, last_click_time |-> lct, passed |-> FALSE]
    ELSE [ret |-> RegionBox(frame, click_x, click_y), last_click_time |-> t,
          passed |-> TRUE]

\* create_region_from_click(frame, click_x, click_y) on a selector whose
\* last_click_time is lct, at time t: the return value and the new timer
create_region_from_click(lct, t, frame, click_x, click_y) ==
    IF t - lct < click_cooldown
    THEN [ret |-> None, last_click_time |-> lct, passed |-> FALSE]
    ELSE [ret |-> RegionBox(frame, click_x, click_y), last_click_time |-> t,
          passed |-> TRUE]

\* what clickLog keeps of a click attempt that reached the selector
ClickEntry(t, frame, click_x, click_y, r) ==
    [t |-> t, valid |-> RegionBox(frame, click_x, click_y) # None,
     passed |-> r.passed, box |-> r.ret # None, timer |-> r.last_click_time]

LastN(log, n) == IF Len(log) <= n THEN log ELSE SubSeq(log, Len(log) - n + 1, Len(log))

\* clickLog after the attempt e
LogClick(e) == IF "clicks" \in probes THEN LastN(Append(clickLog, e), 2) ELSE clickLog

\* a direct call of selector.create_region_from_click
SelectorClick(frame, click_x, click_y) ==
    LET r == create_region_from_click(last_click_time, now, frame, click_x, click_y)
    IN  /\ last_click_time' = r.last_click_time
        /\ call' = [op |-> "create_region_from_click", frame |-> frame,
                    x |-> click_x, y |-> click_y, ret |-> r.ret]
        /\ clickLog' = LogClick(ClickEntry(now, frame, click_x, click_y, r))
        /\ UNCHANGED <<now, cap, is_running, current_frame, selected_regions,
                       automatic_mode, last_auto_detection_time, current_detections,
                       last_detection_time, db, config, detector, flight, seen,
                       effects, probes, checkLog>>

FrameDims == {d \in 1..MaxFrame : d % (2 * CoordStep) = 0}
\* click coordinates along a side of length d: the grid, and the two
\* coordinates whose clamped side is one short of the minimum
ClickCoords(d) ==
    {c \in 0..d : c % CoordStep = 0}
      \cup ({MinRegionSide - 1 - region_size \div 2,
             d - (MinRegionSide - 1 - region_size \div 2)} \cap (0..d))
TestFrames == {Frame(1, w, h) : w \in FrameDims, h \in FrameDims}

InitRegion ==
    /\ now = ClockStart
    /\ ServiceInit
    /\ probes = {"clicks"}
    /\ config = DefaultConfig

NextRegion ==
    \E f \in TestFrames :
      \E x \in ClickCoords(f.w), y \in ClickCoords(f.h) : SelectorClick(f, x, y)

SpecRegion == InitRegion /\ [][NextRegion]_vars

\* C2: for every frame size and every click point inside the frame,
\* create_region_from_click returns None or a box inside the frame with
\* x1 < x2, y1 < y2 and both sides at least 100; a click whose clamped
\* width or height is below 100 returns None.
C2_RegionInFrame ==
    (call.op = "create_region_from_click"
       /\ call.x \in 0..call.frame.w /\ call.y \in 0..call.frame.h) =>
        LET half == region_size \div 2
            cw == Min(call.frame.w, call.x + half) - Max(0, call.x - half)
            ch == Min(call.frame.h, call.y + half) - Max(0, call.y - half)
        IN  /\ (cw < 100 \/ ch < 100) => call.ret = None
            /\ call.ret # None =>
                 LET b == call.ret[1]
                 IN  /\ 0 <= b[1] /\ b[1] < b[3] /\ b[3] <= call.frame.w
                     /\ 0 <= b[2] /\ b[2] < b[4] /\ b[4] <= call.frame.h
                     /\ b[3] - b[1] >= 100
                     /\ b[4] - b[2] >= 100

\* a click near the right edge of a frame returned a box clamped to the
\* frame's width
C2_Witness ==
    /\ call.op = "create_region_from_click"
    /\ call.ret # None
    /\ call.x + region_size \div 2 > call.frame.w
    /\ call.ret[1][3] = call.frame.w

\* a click whose clamped box is too small was rejected although it passed
\* the cooldown check
C2_WitnessRejected ==
    /\ call.op = "create_region_from_click"
    /\ call.ret = None
    /\ Len(clickLog) > 0
    /\ clickLog[Len(clickLog)].passed
    /\ call.x \in 0..call.frame.w /\ call.y \in 0..call.frame.h
    /\ call.frame.w >= 100 /\ call.frame.h >= 100

(***************************************************************************)
(* DetectionScheduler: VideoCaptureService._should_run_auto_detection and  *)
(* AutomaticLeafDetectionService.should_detect.                            *)
(***************************************************************************)
\* _should_run_auto_detection with `>` for `>=`
_should_run_auto_detection_strict(last, t) ==
    IF t - last > auto_detection_interval
    THEN [ret |-> TRUE, last |-> t]
    ELSE [ret |-> FALSE, last |-> last]

\* _should_run_auto_detection() at time t with last_auto_detection_time = last:
\* the return value and the new last_auto_detection_time
_should_run_auto_detection(last, t) ==
    IF t - last >= auto_detection_interval
    THEN [ret |-> TRUE, last |-> t]
    ELSE [ret |-> FALSE, last |-> last]

\* should_detect() at time t with last_detection_time = last
should_detect(last, t) ==
    IF t - last >= detection_interval
    THEN [ret |-> TRUE, last |-> t]
    ELSE [ret |-> FALSE, last |-> last]

\* checkLog after a check of scheduler who that found the timer at `before`
\* and answered r
LogCheck(who, before, r) ==
    IF "checks" \in probes
    THEN [win |-> LastN(Append(checkLog.win,
                               [who |-> who, t |-> now, ret |-> r.ret,
                                before |-> before, after |-> r.last,
                                prev_true |-> checkLog.last_true[who]]),
                        MaxChecks),
          last_true |-> [checkLog.last_true EXCEPT
                           ![who] = IF r.ret THEN Some(now) ELSE @]]
    ELSE checkLog

\* the state an operation found, kept with the call
Pre ==
    [cap |-> cap, is_running |-> is_running, current_frame |-> current_frame,
     selected_regions |-> selected_regions, automatic_mode |-> automatic_mode,
     last_auto_detection_time |-> last_auto_detection_time,
     last_click_time |-> last_click_time,
     current_detections |-> current_detections, db |-> db,
     detector |-> detector]

\* AutomaticLeafDetectionService.should_detect()
ShouldDetect ==
    LET r == should_detect(last_detection_time, now)
    IN  /\ last_detection_time' = r.last
        /\ call' = [op |-> "should_detect", pre |-> Pre, ret |-> r.ret]
        /\ effects' = <<>>
        /\ checkLog' = LogCheck("service", last_detection_time, r)
        /\ UNCHANGED <<now, cap, is_running, current_frame, selected_regions,
                       automatic_mode, last_auto_detection_time, last_click_time,
                       current_detections, db, config, detector, flight, seen, probes, clickLog>>

(***************************************************************************)
(* VideoCaptureService: session and mode.                                  *)
(***************************************************************************)
\* initialize_model(): loads is whether cv2.dnn.readNetFromCaffe delivers a
\* net; when it raises, net keeps what it held
initialize_model(det, loads) ==
    IF loads
    THEN [detector |-> [is_initialized |-> TRUE, net |-> "loaded"], ret |-> TRUE]
    ELSE [detector |-> [det EXCEPT !.is_initialized = FALSE], ret |-> FALSE]

\* AutomaticLeafDetectionService.initialize()
initialize(det, loads) ==
    LET model_initialized == initialize_model(det, loads)
    IN  [detector |-> model_initialized.detector,
         model_initialized |-> model_initialized.ret,
         ret |-> TRUE]

\* start_camera(camera_index); outcome is what cv2.VideoCapture did:
\* "opened", "unopened" (isOpened() is false) or "raise"; loads is whether
\* the model files load when initialize() is reached.  The call keeps
\* whether the model's initialization was attempted and what it answered.
StartCamera(outcome, loads) ==
    LET reached == outcome = "opened"
        i == initialize(detector, loads)
    IN  /\ cap' = IF outcome = "raise" THEN cap ELSE outcome
        /\ is_running' = IF reached THEN TRUE ELSE is_running
        /\ detector' = IF reached THEN i.detector ELSE detector
        /\ seen' = IF reached /\ ~i.model_initialized
                   THEN [seen EXCEPT !.init_failed = TRUE] ELSE seen
        /\ call' = [op |-> "start_camera", pre |-> Pre, outcome |-> outcome,
                    model |-> IF reached THEN Some(i.model_initialized) ELSE None,
                    service |-> IF reached THEN Some(i.ret) ELSE None,
                    failed_before |-> seen.init_failed,
                    ret |-> reached]
        /\ effects' = <<>>
        /\ UNCHANGED <<now, current_frame, selected_regions, automatic_mode,
                       last_auto_detection_time, last_click_time, current_detections,
                       last_detection_time, db, config, flight, probes, checkLog,
                       clickLog>>

\* the get_frame calls in the middle of their work when stop_camera runs are
\* marked (observation)
MarkStopped(fl) ==
    [l \in DOMAIN fl |-> IF fl[l].pc = "idle" THEN fl[l]
                         ELSE [fl[l] EXCEPT !.stopped = TRUE]]

\* stop_camera that keeps the frame it holds
StopCameraKeepsFrame ==
    /\ is_running' = FALSE
    /\ cap' = "none"
    /\ selected_regions' = <<>>
    /\ call' = [op |-> "stop_camera", pre |-> Pre, ret |-> None]
    /\ effects' = IF cap # "none" THEN <<[type |-> "release"]>> ELSE <<>>
    /\ flight' = MarkStopped(flight)
    /\ UNCHANGED <<now, current_frame, automatic_mode, last_auto_detection_time,
                   last_click_time, current_detections, last_detection_time, db,
                   config, detector, seen, probes, checkLog, clickLog>>

\* stop_camera()
StopCamera ==
    /\ is_running' = FALSE
    /\ cap' = "none"
    /\ selected_regions' = <<>>
    /\ current_frame' = None
    /\ call' = [op |-> "stop_camera", pre |-> Pre, ret |-> None]
    /\ effects' = IF cap # "none" THEN <<[type |-> "release"]>> ELSE <<>>
    /\ flight' = MarkStopped(flight)
    /\ UNCHANGED <<now, automatic_mode, last_auto_detection_time, last_click_time,
                   current_detections, last_detection_time, db, config, detector, seen, probes,
                   checkLog, clickLog>>

\* toggle_automatic_mode that only ever switches automatic mode on
toggle_on(mode) == TRUE

\* toggle_automatic_mode: the new mode
toggle(mode) == ~mode

\* toggle_automatic_mode that clears the selected regions when it leaves
\* Manual mode
ToggleAutomaticModeClearing ==
    LET again == call.op = "toggle_automatic_mode"
    IN  /\ automatic_mode' = toggle(automatic_mode)
        /\ selected_regions' = IF automatic_mode THEN selected_regions ELSE <<>>
        /\ call' = [op |-> "toggle_automatic_mode", pre |-> Pre,
                    ret |-> automatic_mode',
                    again |-> again,
                    start_mode |-> IF again THEN call.pre.automatic_mode
                                   ELSE automatic_mode,
                    start_regions |-> IF again THEN call.pre.selected_regions
                                      ELSE selected_regions]
        /\ effects' = <<>>
        /\ UNCHANGED <<now, cap, is_running, current_frame,
                       last_auto_detection_time, last_click_time, current_detections,
                       last_detection_time, db, config, detector, flight, seen,
                       probes, checkLog, clickLog>>

\* toggle_automatic_mode(); the call also keeps whether the operation before
\* it was a toggle, and the mode and the regions that one started from
ToggleAutomaticMode ==
    LET again == call.op = "toggle_automatic_mode"
    IN  /\ automatic_mode' = toggle(automatic_mode)
        /\ call' = [op |-> "toggle_automatic_mode", pre |-> Pre,
                    ret |-> automatic_mode',
                    again |-> again,
                    start_mode |-> IF again THEN call.pre.automatic_mode
                                   ELSE automatic_mode,
                    start_regions |-> IF again THEN call.pre.selected_regions
                                      ELSE selected_regions]
        /\ effects' = <<>>
        /\ UNCHANGED <<now, cap, is_running, current_frame, selected_regions,
                       last_auto_detection_time, last_click_time, current_detections,
                       last_detection_time, db, config, detector, flight, seen,
                       probes, checkLog, clickLog>>

\* get_automatic_detections(): last_results is assigned nowhere, so getattr
\* answers its default.  The call keeps the results of the batch when the
\* operation before it was a get_frame that ran one.
GetAutomaticDetections ==
    /\ call' = [op |-> "get_automatic_detections", pre |-> Pre,
                batch |-> IF call.op = "get_frame" /\ call.run
                          THEN Some(call.results) ELSE None,
                ret |-> <<>>]
    /\ effects' = <<>>
    /\ UNCHANGED <<now, serviceVars, config, detector, flight, seen, probes, checkLog, clickLog>>

(***************************************************************************)
(* DetectionPipeline, automatic flow: process_detections,                  *)
(* _process_detections_async, _log_detection_result.                       *)
(*                                                                         *)
(* A detection is <<x1, y1, x2, y2, confidence>>.  What happens to a       *)
(* candidate's classification request is the outcome out:                  *)
(*   kind "ok"   status 200 with a payload carrying disease and severity   *)
(*   kind "http" a response with another status                            *)
(*   kind "exc"  requests.post raises (transport error)                    *)
(*   kind "io"   the temporary image cannot be written or opened           *)
(***************************************************************************)
BBoxOf(det) == <<det[1], det[2], det[3], det[4]>>

Carried(det, i) == [bbox |-> BBoxOf(det), confidence |-> det[5], leaf_index |-> i]

Post(src, bbox, i) == [type |-> "classify", src |-> src, bbox |-> bbox, leaf_index |-> i]

\* upload_detect, the handler behind http://localhost:5000/api/upload_detect,
\* serving the request made for leaf i with the tables at dbv.  A 200 answer
\* comes after the capture, the detection and the action ('none', 0) were
\* recorded; the other answers are the ones given before anything is
\* recorded.
upload_detect(dbv, out, i) ==
    IF out.kind = "ok"
    THEN [db |-> [captures |-> dbv.captures + 1,
                  detections |-> dbv.detections + 1,
                  actions |-> dbv.actions + 1],
          effects |->
            <<[type |-> "insert_capture", by |-> "upload_detect",
               id |-> dbv.captures + 1, leaf_index |-> i],
              [type |-> "insert_detection", by |-> "upload_detect",
               id |-> dbv.detections + 1, capture_id |-> dbv.captures + 1,
               severity |-> out.severity, leaf_index |-> i],
              [type |-> "insert_action", by |-> "upload_detect",
               id |-> dbv.actions + 1, detection_id |-> dbv.detections + 1,
               action |-> "none", duration_ms |-> 0, leaf_index |-> i]>>]
    ELSE [db |-> dbv, effects |-> <<>>]

\* one turn of process_detections' loop, for candidate number i (from 0),
\* with the tables at dbv: the result appended, the external calls made and
\* the tables afterwards
ClassifyOne(i, det, out, dbv) ==
    LET bbox == BBoxOf(det)
        served == upload_detect(dbv, out, i)
        sent == <<[type |-> "tmp_write", src |-> "auto", leaf_index |-> i],
                  Post("auto", bbox, i)>>
        removed == <<[type |-> "tmp_remove", src |-> "auto", leaf_index |-> i]>>
    IN  CASE out.kind = "ok" ->
               [result |-> [disease |-> out.disease, severity |-> out.severity]
                             @@ Carried(det, i),
                effects |-> sent \o served.effects \o removed,
                db |-> served.db]
          [] out.kind = "http" ->
               [result |-> [error |-> "API request failed"] @@ Carried(det, i),
                effects |-> sent \o removed,
                db |-> dbv]
          [] out.kind = "exc" ->
               [result |-> [error |-> "Processing failed"] @@ Carried(det, i),
                effects |-> sent \o removed,
                db |-> dbv]
          [] OTHER ->
               [result |-> [error |-> "Processing failed"] @@ Carried(det, i),
                effects |-> <<>>,
                db |-> dbv]

RECURSIVE ProcessFrom(_, _, _, _)
ProcessFrom(detections, outs, k, dbv) ==
    IF k > Len(detections)
    THEN [results |-> <<>>, effects |-> <<>>, db |-> dbv]
    ELSE LET one == ClassifyOne(k - 1, detections[k], outs[k], dbv)
             rest == ProcessFrom(detections, outs, k + 1, one.db)
         IN  [results |-> <<one.result>> \o rest.results,
              effects |-> one.effects \o rest.effects,
              db |-> rest.db]

\* process_detections that gives up at the first candidate whose
\* classification fails
RECURSIVE ProcessUntilFailure(_, _, _, _)
ProcessUntilFailure(detections, outs, k, dbv) ==
    IF k > Len(detections)
    THEN [results |-> <<>>, effects |-> <<>>, db |-> dbv]
    ELSE LET one == ClassifyOne(k - 1, detections[k], outs[k], dbv)
             rest == IF "error" \in DOMAIN one.result
                     THEN [results |-> <<>>, effects |-> <<>>, db |-> one.db]
                     ELSE ProcessUntilFailure(detections, outs, k + 1, one.db)
         IN  [results |-> <<one.result>> \o rest.results,
              effects |-> one.effects \o rest.effects,
              db |-> rest.db]

process_detections_abort(detections, outs, dbv) ==
    ProcessUntilFailure(detections, outs, 1, dbv)

\* process_detections(frame, detections): the results and the external calls
process_detections(detections, outs, dbv) == ProcessFrom(detections, outs, 1, dbv)

\* SprayerController.spray_for_ms(duration_ms) on the Pi: what is written to
\* the sprayer's pin
spray_for_ms(duration_ms) ==
    IF duration_ms <= 0 THEN <<>> ELSE <<"HIGH", "LOW">>

\* _log_detection_result(result) with current_frame = cf and the tables at
\* dbv: the tables afterwards and the external calls made
_log_detection_result(result, cf, dbv, cfg) ==
    IF cf = None
    THEN [db |-> dbv, effects |-> <<>>]
    ELSE LET capture_id == dbv.captures + 1
             detection_id == dbv.detections + 1
             decision == _decide_action(cfg, result.severity, TRUE)
             action == decision[1]
             duration_ms == decision[2]
         IN  [db |-> [captures |-> dbv.captures + 1,
                      detections |-> dbv.detections + 1,
                      actions |-> dbv.actions + 1],
              effects |->
                <<[type |-> "imwrite", by |-> "_log_detection_result", frame |-> cf[1], bbox |-> result.bbox,
                   leaf_index |-> result.leaf_index],
                  [type |-> "insert_capture", by |-> "_log_detection_result", id |-> capture_id,
                   leaf_index |-> result.leaf_index],
                  [type |-> "insert_detection", by |-> "_log_detection_result", id |-> detection_id,
                   capture_id |-> capture_id, severity |-> result.severity,
                   leaf_index |-> result.leaf_index]>>
                \o (IF duration_ms > 0
                    THEN <<[type |-> "spray", by |-> "_log_detection_result",
                            duration_ms |-> duration_ms,
                            pin |-> spray_for_ms(duration_ms),
                            leaf_index |-> result.leaf_index]>>
                    ELSE <<>>)
                \o <<[type |-> "insert_action", by |-> "_log_detection_result", id |-> dbv.actions + 1,
                      detection_id |-> detection_id, action |-> action,
                      duration_ms |-> duration_ms,
                      leaf_index |-> result.leaf_index]>>]

\* the loop of _process_detections_async over results[k..]
RECURSIVE LogFrom(_, _, _, _, _)
LogFrom(results, k, cf, dbv, cfg) ==
    IF k > Len(results)
    THEN [db |-> dbv, effects |-> <<>>]
    ELSE IF "error" \in DOMAIN results[k]
    THEN LogFrom(results, k + 1, cf, dbv, cfg)
    ELSE LET one == _log_detection_result(results[k], cf, dbv, cfg)
             rest == LogFrom(results, k + 1, cf, one.db, cfg)
         IN  [db |-> rest.db, effects |-> one.effects \o rest.effects]

\* _process_detections_async(frame, detections)
_process_detections_async(detections, outs, cf, dbv, cfg) ==
    LET p == process_detections(detections, outs, dbv)
        l == LogFrom(p.results, 1, cf, p.db, cfg)
    IN  [results |-> p.results, db |-> l.db, effects |-> p.effects \o l.effects]

\* _run_automatic_detection(frame) when the detector answers detections
_run_automatic_detection(detections, outs, cf, dbv, cfg) ==
    IF detections = <<>>
    THEN [results |-> <<>>, db |-> dbv, effects |-> <<>>]
    ELSE _process_detections_async(detections, outs, cf, dbv, cfg)

\* the annotated copy get_frame keeps and returns
Annotated(frame) == [frame EXCEPT !.annotated = TRUE]

\* get_frame that evaluates automatic detection in either mode
detection_enabled_any_mode(mode) == TRUE

\* get_frame: `if self.automatic_mode and self._should_run_auto_detection()`
\* evaluates the scheduler only in Automatic mode
detection_enabled(mode) == mode

\* get_frame that forgets the frame it holds when the read fails
held_frame_cleared(got, frame, cf) ==
    IF got THEN Some(Annotated(frame)) ELSE None

\* current_frame after get_frame: the annotated copy of the frame read, or
\* what it was when get_frame returned before reading a frame
held_frame(got, frame, cf) ==
    IF got THEN Some(Annotated(frame)) ELSE cf

\* whether the operation just before was a get_frame of a running session
\* whose frame source had no frame
Unavailable ==
    /\ call.op = "get_frame"
    /\ call.pre.is_running /\ call.pre.cap # "none"
    /\ ~call.read_ok

\* get_frame(). read_ok: cap.read() delivered a frame; frame: that frame;
\* detections: what the detector finds in it; outs: the outcome of each
\* candidate's classification request
GetFrame(read_ok, frame, detections, outs) ==
    LET live == is_running /\ cap # "none"
        got == live /\ cap = "opened" /\ read_ok
        r == _should_run_auto_detection(last_auto_detection_time, now)
        checked == got /\ detection_enabled(automatic_mode)
        run == checked /\ r.ret
        d == _run_automatic_detection(detections, outs, current_frame, db, config)
    IN  /\ Len(outs) = Len(detections)
        /\ ~run => detections = <<>>
        /\ ~got => frame.id = 1
        /\ last_auto_detection_time' = IF checked THEN r.last
                                       ELSE last_auto_detection_time
        /\ checkLog' = IF checked
                       THEN LogCheck("video", last_auto_detection_time, r)
                       ELSE checkLog
        /\ current_detections' = IF run THEN detections ELSE current_detections
        /\ db' = IF run THEN d.db ELSE db
        /\ effects' = IF run THEN d.effects ELSE <<>>
        /\ current_frame' = held_frame(got, frame, current_frame)
        /\ call' = [op |-> "get_frame", pre |-> Pre, read_ok |-> got,
                    after_unavailable |-> Unavailable, t |-> now,
                    checked |-> checked, run |-> run,
                    detections |-> IF run THEN detections ELSE <<>>,
                    outs |-> IF run THEN outs ELSE <<>>,
                    results |-> IF run THEN d.results ELSE <<>>,
                    ret |-> IF got THEN Some(Annotated(frame)) ELSE None]
        /\ UNCHANGED <<now, cap, is_running, selected_regions, automatic_mode,
                       last_click_time, last_detection_time, config, detector, flight, seen, probes,
                       clickLog>>

(***************************************************************************)
(* DetectionPipeline, manual flow: add_click_region and                    *)
(* detect_and_classify_leaf.                                               *)
(***************************************************************************)
\* add_click_region without the automatic-mode check
add_click_region_any_mode(mode, cf, lct, t, click_x, click_y) ==
    IF cf = None
    THEN [ret |-> None, last_click_time |-> lct, reached |-> FALSE, passed |-> FALSE]
    ELSE create_region_from_click(lct, t, cf[1], click_x, click_y)
           @@ [reached |-> TRUE]

\* add_click_region(click_x, click_y) in mode `mode` with current_frame = cf
\* and the selector's timer at lct, at time t
add_click_region(mode, cf, lct, t, click_x, click_y) ==
    IF mode \/ cf = None
    THEN [ret |-> None, last_click_time |-> lct, reached |-> FALSE, passed |-> FALSE]
    ELSE create_region_from_click(lct, t, cf[1], click_x, click_y)
           @@ [reached |-> TRUE]

\* add_click_region that keeps the new region only
AddClickRegionKeepsNewest(click_x, click_y) ==
    LET r == add_click_region(automatic_mode, current_frame, last_click_time, now,
                              click_x, click_y)
    IN  /\ last_click_time' = r.last_click_time
        /\ selected_regions' = IF r.ret # None
                               THEN <<r.ret[1]>>
                               ELSE selected_regions
        /\ call' = [op |-> "add_click_region", pre |-> Pre, x |-> click_x,
                    y |-> click_y, ret |-> r.ret]
        /\ effects' = <<>>
        /\ clickLog' = IF r.reached
                       THEN LogClick(ClickEntry(now, current_frame[1],
                                                click_x, click_y, r))
                       ELSE clickLog
        /\ UNCHANGED <<now, cap, is_running, current_frame, automatic_mode,
                       last_auto_detection_time, current_detections,
                       last_detection_time, db, config, detector, flight, seen, probes, checkLog>>

\* add_click_region(click_x, click_y)
AddClickRegion(click_x, click_y) ==
    LET r == add_click_region(automatic_mode, current_frame, last_click_time, now,
                              click_x, click_y)
    IN  /\ last_click_time' = r.last_click_time
        /\ selected_regions' = IF r.ret # None
                               THEN Append(selected_regions, r.ret[1])
                               ELSE selected_regions
        /\ call' = [op |-> "add_click_region", pre |-> Pre, x |-> click_x,
                    y |-> click_y, ret |-> r.ret]
        /\ effects' = <<>>
        /\ clickLog' = IF r.reached
                       THEN LogClick(ClickEntry(now, current_frame[1],
                                                click_x, click_y, r))
                       ELSE clickLog
        /\ UNCHANGED <<now, cap, is_running, current_frame, automatic_mode,
                       last_auto_detection_time, current_detections,
                       last_detection_time, db, config, detector, flight, seen, probes, checkLog>>

\* seq[i] as Python indexes a list: from 0, and from the end when negative
PyIndexable(seq, i) == -Len(seq) <= i /\ i < Len(seq)
PyIndex(seq, i) == IF i >= 0 THEN seq[i + 1] ELSE seq[Len(seq) + i + 1]

\* detect_and_classify_leaf that tests the mode again when the answer comes
manual_reply_rechecked(mode, out) ==
    IF mode
    THEN [kind |-> "error", error |-> "Manual detection disabled in automatic mode"]
    ELSE IF out.kind = "ok"
    THEN [kind |-> "result", disease |-> out.disease, severity |-> out.severity]
    ELSE IF out.kind = "http"
    THEN [kind |-> "error", error |-> "API request failed"]
    ELSE [kind |-> "error", error |-> "Detection failed"]

\* detect_and_classify_leaf: what is returned for the outcome of the
\* classification request, the mode being `mode` when the answer comes
manual_reply(mode, out) ==
    IF out.kind = "ok"
    THEN [kind |-> "result", disease |-> out.disease, severity |-> out.severity]
    ELSE IF out.kind = "http"
    THEN [kind |-> "error", error |-> "API request failed"]
    ELSE [kind |-> "error", error |-> "Detection failed"]

\* detect_and_classify_leaf(region_index); out is the outcome of the
\* classification request, when one is made
DetectAndClassifyLeaf(region_index, out) ==
    LET rejected ==
            IF automatic_mode
            THEN Some("Manual detection disabled in automatic mode")
            ELSE IF selected_regions = <<>> \/ region_index >= Len(selected_regions)
            THEN Some("Invalid region index")
            ELSE IF current_frame = None
            THEN Some("No frame available")
            ELSE None
        raises == rejected = None /\ ~PyIndexable(selected_regions, region_index)
        sends == rejected = None /\ ~raises
        bbox == PyIndex(selected_regions, region_index)
        served == IF sends /\ out.kind # "io"
                  THEN upload_detect(db, out, region_index)
                  ELSE [db |-> db, effects |-> <<>>]
    IN  /\ ~sends => out.kind = "http"
        /\ call' = [op |-> "detect_and_classify_leaf", pre |-> Pre,
                    region_index |-> region_index,
                    ret |-> IF rejected # None
                            THEN [kind |-> "error", error |-> rejected[1]]
                            ELSE IF raises
                            THEN [kind |-> "raise", error |-> "IndexError"]
                            ELSE manual_reply(automatic_mode, out)]
        /\ effects' = IF ~sends \/ out.kind = "io" THEN <<>>
                      ELSE <<[type |-> "tmp_write", src |-> "manual",
                              leaf_index |-> region_index],
                             [type |-> "classify", src |-> "manual",
                              bbox |-> bbox, leaf_index |-> region_index]>>
                           \o served.effects
                           \o (IF out.kind = "http" THEN <<>>
                               ELSE <<[type |-> "tmp_remove", src |-> "manual",
                                       leaf_index |-> region_index]>>)
        /\ db' = served.db
        /\ UNCHANGED <<now, cap, is_running, current_frame, selected_regions,
                       automatic_mode, last_auto_detection_time, last_click_time,
                       current_detections, last_detection_time, config, detector,
                       flight, seen, probes, checkLog, clickLog>>

(***************************************************************************)
(* SpecSched: the two schedulers under a clock that moves in steps around  *)
(* their intervals.                                                        *)
(***************************************************************************)
CameraFrames == {Frame(id, CameraWidth, CameraHeight) : id \in 1..MaxFrameId}

SchedSteps == {click_cooldown, detection_interval - 1, detection_interval + 1}

InitSched ==
    /\ now = ClockStart
    /\ ServiceInit
    /\ config = DefaultConfig
    /\ probes = {"checks"}

NextSched ==
    \/ \E d \in SchedSteps : Tick(d)
    \/ StartCamera("opened", FALSE)
    \/ ToggleAutomaticMode
    \/ \E ok \in BOOLEAN : GetFrame(ok, Frame(1, CameraWidth, CameraHeight), <<>>, <<>>)
    \/ ShouldDetect

SpecSched == InitSched /\ [][NextSched]_vars

IntervalOf(who) == IF who = "video" THEN 30 ELSE 20

Checks == {checkLog.win[i] : i \in 1..Len(checkLog.win)}

\* C4: for scheduler checks at non-decreasing times, two checks that return
\* true are at least the interval apart (3.0 s video loop, 2.0 s standalone
\* service), a check returns true whenever at least the interval has passed
\* since the last check that returned true, and a check that returns false
\* leaves the timer unchanged.
C4_SchedulerGate ==
    /\ \A e \in Checks :
         /\ (e.ret /\ e.prev_true # None) => e.t - e.prev_true[1] >= IntervalOf(e.who)
         /\ (e.prev_true # None /\ e.t - e.prev_true[1] >= IntervalOf(e.who)) => e.ret
         /\ ~e.ret => e.after = e.before
    /\ \A i, j \in 1..Len(checkLog.win) :
         (i < j /\ checkLog.win[i].who = checkLog.win[j].who
            /\ checkLog.win[i].ret /\ checkLog.win[j].ret)
           => checkLog.win[j].t - checkLog.win[i].t >= IntervalOf(checkLog.win[i].who)

\* the video loop's scheduler answered true, then false less than 3.0 s
\* later, then true exactly 3.0 s after the first
C4_Witness ==
    /\ Len(checkLog.win) = 3
    /\ \A i \in 1..3 : checkLog.win[i].who = "video"
    /\ checkLog.win[1].ret /\ ~checkLog.win[2].ret /\ checkLog.win[3].ret
    /\ checkLog.win[2].t > checkLog.win[1].t
    /\ checkLog.win[3].t = checkLog.win[1].t + 30

VideoChecks == SelectSeq(checkLog.win, LAMBDA e : e.who = "video")

\* C5: on a freshly constructed video scheduler (interval 3.0 s) the first
\* check returns true whatever the clock reads, and checks 0, 1.0 and 3.1 s
\* after that first one return true, false and true.
C5_FreshScheduler ==
    /\ \A e \in Checks : (e.who = "video" /\ e.prev_true = None) => e.ret
    /\ (/\ Len(VideoChecks) = 3
        /\ VideoChecks[1].prev_true = None
        /\ VideoChecks[2].t = VideoChecks[1].t + 10
        /\ VideoChecks[3].t = VideoChecks[1].t + 31)
         => (VideoChecks[1].ret /\ ~VideoChecks[2].ret /\ VideoChecks[3].ret)

\* the first three checks of the video scheduler were made at t, t + 1.0 s
\* and t + 3.1 s and returned true, false, true
C5_Witness ==
    /\ Len(VideoChecks) = 3
    /\ VideoChecks[1].prev_true = None
    /\ VideoChecks[1].before = 0
    /\ VideoChecks[2].t = VideoChecks[1].t + 10
    /\ VideoChecks[3].t = VideoChecks[1].t + 31
    /\ VideoChecks[1].ret /\ ~VideoChecks[2].ret /\ VideoChecks[3].ret

(***************************************************************************)
(* SpecClick: clicks on the video under a clock that moves in steps around *)
(* the cooldown.                                                           *)
(***************************************************************************)
\* a click in the middle of the camera frame, one whose box is clamped at the
\* left edge, and one in the corner, whose clamped box is too small
ClickPoints == {<<320, 240>>, <<60, 240>>, <<10, 10>>}

ClickSteps == {click_cooldown - 1, click_cooldown}

InitClick ==
    /\ now = ClockStart
    /\ ServiceInit
    /\ config = DefaultConfig
    /\ probes = {"clicks"}

NextClick ==
    \/ \E d \in ClickSteps : Tick(d)
    \/ StartCamera("opened", FALSE)
    \/ \E f \in CameraFrames : GetFrame(TRUE, f, <<>>, <<>>)
    \/ \E c \in ClickPoints : AddClickRegion(c[1], c[2])

SpecClick == InitClick /\ [][NextClick]_vars

\* C3 as claimed: of any two consecutive click attempts on the selector, the
\* second returns None when it comes less than 1.0 s after the first, and
\* both return a box when both have valid coordinates and are at least
\* 1.0 s apart.
C3_AnyTwoClicks ==
    Len(clickLog) = 2 =>
        /\ clickLog[2].t - clickLog[1].t < 10 => ~clickLog[2].box
        /\ (clickLog[1].valid /\ clickLog[2].valid
              /\ clickLog[2].t - clickLog[1].t >= 10)
             => (clickLog[1].box /\ clickLog[2].box)

\* C3, amended: the same of two consecutive click attempts of which the
\* first was not itself dropped by the cooldown.
C3_TwoClicksAfterPassed ==
    (Len(clickLog) = 2 /\ clickLog[1].passed) =>
        /\ clickLog[2].t - clickLog[1].t < 10 => ~clickLog[2].box
        /\ (clickLog[1].valid /\ clickLog[2].valid
              /\ clickLog[2].t - clickLog[1].t >= 10)
             => (clickLog[1].box /\ clickLog[2].box)

\* two valid clicks exactly 1.0 s apart both returned a box, and both boxes
\* are in selected_regions
C3_Witness ==
    /\ Len(clickLog) = 2
    /\ clickLog[1].passed /\ clickLog[1].valid /\ clickLog[2].valid
    /\ clickLog[2].t - clickLog[1].t = 10
    /\ clickLog[1].box /\ clickLog[2].box
    /\ Len(selected_regions) >= 2

\* a click 0.9 s after a click that passed the cooldown check was dropped
C3_WitnessDropped ==
    /\ Len(clickLog) = 2
    /\ clickLog[1].passed /\ clickLog[2].valid
    /\ clickLog[2].t - clickLog[1].t = 9
    /\ ~clickLog[2].box

\* C24: last_click_time is set to the time of a click exactly when the click
\* passes the cooldown check, whether its box is then returned or rejected
\* for its size, and a click dropped inside the cooldown leaves it
\* unchanged; so a click rejected for its size makes a valid click less
\* than 1.0 s later return None, and clicks dropped inside a window do not
\* extend the window.
C24_CooldownTimer ==
    /\ clickLog # <<>> => last_click_time = clickLog[Len(clickLog)].timer
    /\ Len(clickLog) = 2 =>
         /\ clickLog[2].passed <=> clickLog[2].t - clickLog[1].timer >= 10
         /\ clickLog[2].timer = IF clickLog[2].passed THEN clickLog[2].t
                                                     ELSE clickLog[1].timer
         /\ (clickLog[1].passed /\ ~clickLog[1].box /\ clickLog[2].valid
               /\ clickLog[2].t - clickLog[1].t < 10) => ~clickLog[2].box
         /\ (~clickLog[1].passed /\ clickLog[2].valid
               /\ clickLog[2].t - clickLog[1].timer >= 10) => clickLog[2].box

\* a click rejected for its size, then a valid click 0.9 s later dropped,
\* the timer still at the rejected click's time
C24_Witness ==
    /\ Len(clickLog) = 2
    /\ clickLog[1].passed /\ ~clickLog[1].valid /\ ~clickLog[1].box
    /\ clickLog[2].valid /\ ~clickLog[2].passed
    /\ clickLog[2].t - clickLog[1].t = 9
    /\ last_click_time = clickLog[1].t

\* a click dropped 0.9 s into a window, then a valid click 0.9 s after it,
\* 1.8 s after the window started, returned a box
C24_WitnessWindowNotExtended ==
    /\ Len(clickLog) = 2
    /\ ~clickLog[1].passed
    /\ clickLog[1].t - clickLog[1].timer = 9
    /\ clickLog[2].t - clickLog[1].t < 10
    /\ clickLog[2].box

(***************************************************************************)
(* What the detector and the classifier can answer.                        *)
(***************************************************************************)
\* candidate number k of a frame: distinct boxes of 60 x 70 pixels
CandidateAt(k) == <<70 * k, 50, 70 * k + 60, 120, 50 + k>>

\* the detector's answers: the first n candidates, n = 0..max
Batches(max) == {[k \in 1..n |-> CandidateAt(k)] : n \in 0..max}

Failure(kind) == [kind |-> kind, disease |-> "", severity |-> 0]

Outcomes(severities) ==
    {[kind |-> "ok", disease |-> "blight", severity |-> v] : v \in severities}
      \cup {Failure("http"), Failure("exc"), Failure("io")}

(***************************************************************************)
(* Spec: the video service's session, mode and manual operations, the      *)
(* clock moving by one cooldown at a time.  Manual classification requests *)
(* fail here; the ones that succeed are in SpecStore.                      *)
(***************************************************************************)
Init ==
    /\ now = ClockStart
    /\ ServiceInit
    /\ config = DefaultConfig
    /\ probes = {}

\* the clicks of Spec: one that gives a region and one too near the corner
ManualPoints == {<<320, 240>>, <<10, 10>>}

Next ==
    \/ Tick(click_cooldown)
    \/ \E o \in {"opened", "unopened", "raise"} : StartCamera(o, FALSE)
    \/ StopCamera
    \/ ToggleAutomaticMode
    \/ \E ok \in BOOLEAN, f \in CameraFrames, d \in Batches(1) :
         \E outs \in [1..Len(d) -> Outcomes({90})] : GetFrame(ok, f, d, outs)
    \/ \E c \in ManualPoints : AddClickRegion(c[1], c[2])
    \/ \E i \in -MaxIndex..MaxIndex, out \in Outcomes({}) :
         DetectAndClassifyLeaf(i, out)
    \/ GetAutomaticDetections

Spec == Init /\ [][Next]_vars

Dispatched == SelectSeq(effects, LAMBDA e : e.type = "classify")

\* C6: from either mode toggle_automatic_mode switches to the other mode
\* and returns the new mode, and a second toggle right after the first
\* brings back the mode the first one started from.
C6_ToggleFlips ==
    call.op = "toggle_automatic_mode" =>
        /\ automatic_mode = ~call.pre.automatic_mode
        /\ call.ret = automatic_mode
        /\ call.again => automatic_mode = call.start_mode

\* two toggles in a row, starting in Automatic, ended in Automatic
C6_Witness ==
    /\ call.op = "toggle_automatic_mode"
    /\ call.again
    /\ call.start_mode = TRUE
    /\ call.pre.automatic_mode = FALSE
    /\ automatic_mode = TRUE

\* C7: in Automatic mode add_click_region returns None and
\* detect_and_classify_leaf returns the 'disabled in automatic mode' error,
\* and either leaves selected_regions, last_click_time, current_frame and
\* the mode as they were and dispatches no classification request.
C7_ManualOpsRejected ==
    (call.op \in {"add_click_region", "detect_and_classify_leaf"}
       /\ call.pre.automatic_mode) =>
        /\ call.op = "add_click_region" => call.ret = None
        /\ call.op = "detect_and_classify_leaf" =>
             call.ret = [kind |-> "error",
                         error |-> "Manual detection disabled in automatic mode"]
        /\ selected_regions = call.pre.selected_regions
        /\ last_click_time = call.pre.last_click_time
        /\ current_frame = call.pre.current_frame
        /\ automatic_mode = TRUE
        /\ Dispatched = <<>>

\* in Automatic mode, with a frame and the cooldown over, a click with valid
\* coordinates was rejected
C7_Witness ==
    /\ call.op = "add_click_region"
    /\ call.pre.automatic_mode
    /\ call.pre.current_frame # None
    /\ now - call.pre.last_click_time >= 10
    /\ call.x = 320 /\ call.y = 240
    /\ call.ret = None

\* in Automatic mode, with a frame and a selected region, classifying region
\* 0 was rejected
C7_WitnessDetect ==
    /\ call.op = "detect_and_classify_leaf"
    /\ call.pre.automatic_mode
    /\ call.pre.current_frame # None
    /\ call.pre.selected_regions # <<>>
    /\ call.region_index = 0
    /\ call.ret.kind = "error"

\* C10: in Manual mode detect_and_classify_leaf(region_index) returns the
\* 'Invalid region index' error and dispatches no classification for every
\* region_index outside 0 .. len(selected_regions) - 1.
C10_IndexOutOfRangeRejected ==
    (call.op = "detect_and_classify_leaf"
       /\ ~call.pre.automatic_mode
       /\ call.region_index \notin 0..(Len(call.pre.selected_regions) - 1)) =>
        /\ call.ret = [kind |-> "error", error |-> "Invalid region index"]
        /\ Dispatched = <<>>

\* an index at or past the end of a non-empty list was rejected
C10_WitnessPastEnd ==
    /\ call.op = "detect_and_classify_leaf"
    /\ ~call.pre.automatic_mode
    /\ call.pre.selected_regions # <<>>
    /\ call.region_index >= Len(call.pre.selected_regions)
    /\ call.ret = [kind |-> "error", error |-> "Invalid region index"]

(***************************************************************************)
(* SpecBatch: automatic batches of up to MaxBatch candidates, the clock    *)
(* moving by one automatic-detection interval at a time.                   *)
(***************************************************************************)
InitBatch ==
    /\ now = ClockStart
    /\ ServiceInit
    /\ config = DefaultConfig
    /\ probes = {}

NextBatch ==
    \/ Tick(auto_detection_interval)
    \/ StartCamera("opened", FALSE)
    \/ StopCamera
    \/ ToggleAutomaticMode
    \/ \E f \in CameraFrames, d \in Batches(MaxBatch) :
         \E outs \in [1..Len(d) -> Outcomes({10, 90})] : GetFrame(TRUE, f, d, outs)

SpecBatch == InitBatch /\ [][NextBatch]_vars

IsBatch == call.op = "get_frame" /\ call.run /\ call.detections # <<>>

\* the external calls of the last operation made for candidate i, by type
EffectsOf(i, types) ==
    SelectSeq(effects, LAMBDA e : e.type \in types /\ e.leaf_index = i)

StoreAndActuator == {"imwrite", "insert_capture", "insert_detection",
                     "insert_action", "spray"}

\* those of them that _log_detection_result made
CoreEffectsOf(i, types) ==
    SelectSeq(EffectsOf(i, types), LAMBDA e : e.by = "_log_detection_result")

\* the records of one table written during the last operation
Stored(type) == SelectSeq(effects, LAMBDA e : e.type = type)

\* the automatic flow recorded candidate i: its capture, its detection and
\* its action
Persisted(i) ==
    /\ Len(CoreEffectsOf(i, {"insert_capture"})) = 1
    /\ Len(CoreEffectsOf(i, {"insert_detection"})) = 1
    /\ Len(CoreEffectsOf(i, {"insert_action"})) = 1

\* the sprayer ran for candidate i exactly when its duration is positive
Actuated(i, severity) ==
    LET duration_ms == _decide_action(config, severity, TRUE)[2]
    IN  Len(EffectsOf(i, {"spray"})) = (IF duration_ms > 0 THEN 1 ELSE 0)

ClassificationFailed(out) == out.kind \in {"http", "exc"}

\* C8: in an automatic batch where one candidate's classification call
\* fails, every candidate of the batch whose classification succeeds is
\* persisted and, when its duration is positive, actuated.
C8_OthersPersisted ==
    (IsBatch /\ \E k \in 1..Len(call.outs) : ClassificationFailed(call.outs[k])) =>
        \A k \in 1..Len(call.outs) :
            call.outs[k].kind = "ok" =>
                /\ Persisted(k - 1)
                /\ Actuated(k - 1, call.outs[k].severity)

\* the same, for batches run while the service holds an earlier frame
C8_OthersPersistedWithHeldFrame ==
    (IsBatch /\ call.pre.current_frame # None
       /\ \E k \in 1..Len(call.outs) : ClassificationFailed(call.outs[k])) =>
        \A k \in 1..Len(call.outs) :
            call.outs[k].kind = "ok" =>
                /\ Persisted(k - 1)
                /\ Actuated(k - 1, call.outs[k].severity)

\* a batch whose first candidate failed and whose later candidate, of high
\* severity, was persisted and sprayed
C8_WitnessHeldFrame ==
    /\ IsBatch
    /\ call.pre.current_frame # None
    /\ Len(call.outs) >= 2
    /\ ClassificationFailed(call.outs[1])
    /\ call.outs[2].kind = "ok" /\ call.outs[2].severity = 90
    /\ Persisted(1)
    /\ Len(EffectsOf(1, {"spray"})) = 1

CaptureDetect(severity) ==
    LET capture_id == db.captures + 1
        detection_id == db.detections + 1
        decision == decide_action(config, severity)
        action == decision[1]
        duration_ms == decision[2]
    IN  /\ db' = [captures |-> db.captures + 1, detections |-> db.detections + 1,
                  actions |-> db.actions + 1]
        /\ effects' =
             <<[type |-> "capture_image", by |-> "capture_detect"],
               [type |-> "insert_capture", by |-> "capture_detect", id |-> capture_id],
               [type |-> "insert_detection", by |-> "capture_detect",
                id |-> detection_id, capture_id |-> capture_id,
                severity |-> severity]>>
             \o (IF duration_ms > 0
                 THEN <<[type |-> "spray", by |-> "capture_detect",
                         duration_ms |-> duration_ms,
                         pin |-> spray_for_ms(duration_ms)]>>
                 ELSE <<>>)
             \o <<[type |-> "insert_action", by |-> "capture_detect",
                   id |-> db.actions + 1, detection_id |-> detection_id,
                   action |-> action, duration_ms |-> duration_ms]>>
        /\ call' = [op |-> "capture_detect", pre |-> Pre, severity |-> severity,
                    ret |-> [severity |-> severity, action |-> action,
                             duration_ms |-> duration_ms]]
        /\ UNCHANGED <<now, cap, is_running, current_frame, selected_regions,
                       automatic_mode, last_auto_detection_time, last_click_time,
                       current_detections, last_detection_time, config, detector,
                       flight, seen, probes, checkLog, clickLog>>

\* POST /api/upload_detect with an image file, from a browser
UploadDetect(out) ==
    LET served == upload_detect(db, out, 0)
    IN  /\ out.kind \in {"ok", "http"}
        /\ db' = served.db
        /\ effects' = served.effects
        /\ call' = [op |-> "upload_detect", pre |-> Pre,
                    ret |-> IF out.kind = "ok"
                            THEN [kind |-> "result", severity |-> out.severity,
                                  action |-> "none", duration_ms |-> 0]
                            ELSE [kind |-> "error", error |-> "No image file provided"]]
        /\ UNCHANGED <<now, cap, is_running, current_frame, selected_regions,
                       automatic_mode, last_auto_detection_time, last_click_time,
                       current_detections, last_detection_time, config, detector,
                       flight, seen, probes, checkLog, clickLog>>

\* get_sprayer().spray_for_ms(duration_ms) called directly
SprayForMs(duration_ms) ==
    /\ effects' = IF spray_for_ms(duration_ms) = <<>> THEN <<>>
                  ELSE <<[type |-> "pin", by |-> "spray_for_ms",
                          pin |-> spray_for_ms(duration_ms)]>>
    /\ call' = [op |-> "spray_for_ms", pre |-> Pre, duration_ms |-> duration_ms,
                ret |-> None]
    /\ UNCHANGED <<now, serviceVars, config, detector, flight, seen, probes,
                   checkLog, clickLog>>

(***************************************************************************)
(* SpecStore: the three flows (field capture, automatic, manual) against   *)
(* the store and the sprayer.                                              *)
(***************************************************************************)
StoreSeverities == {10, 50, 90}

InitStore ==
    /\ now = ClockStart
    /\ ServiceInit
    /\ config = DefaultConfig
    /\ probes = {}

NextStore ==
    \/ Tick(auto_detection_interval)
    \/ StartCamera("opened", FALSE)
    \/ ToggleAutomaticMode
    \/ \E f \in CameraFrames, d \in Batches(MaxStoreBatch) :
         \E outs \in [1..Len(d) -> Outcomes(StoreSeverities)] :
            GetFrame(TRUE, f, d, outs)
    \/ AddClickRegion(320, 240)
    \/ \E out \in Outcomes(StoreSeverities) :
         db.captures < MaxRecords /\ DetectAndClassifyLeaf(0, out)
    \/ \E v \in StoreSeverities : db.captures < MaxRecords /\ CaptureDetect(v)
    \/ \E out \in Outcomes(StoreSeverities) :
         db.captures < MaxRecords /\ UploadDetect(out)
    \/ \E d \in {-1, 0, Ms(DefaultSprayLowMs)} : SprayForMs(d)

SpecStore == InitStore /\ [][NextStore]_vars

StoreTypes == {"insert_capture", "insert_detection", "insert_action"}

\* seq is one capture record, then one detection record referring to it,
\* then one action record referring to the detection
CaptureThenDetectionThenAction(seq) ==
    /\ Len(seq) = 3
    /\ seq[1].type = "insert_capture"
    /\ seq[2].type = "insert_detection" /\ seq[2].capture_id = seq[1].id
    /\ seq[3].type = "insert_action" /\ seq[3].detection_id = seq[2].id

\* C11: for every successfully classified candidate of an automatic batch
\* and for every field capture the store receives exactly one capture
\* record, then one detection record with that capture's id, then one
\* action record with that detection's id.
C11_StoreOrder ==
    /\ IsBatch =>
         \A k \in 1..Len(call.outs) :
            call.outs[k].kind = "ok" =>
                CaptureThenDetectionThenAction(EffectsOf(k - 1, StoreTypes))
    /\ call.op = "capture_detect" =>
         CaptureThenDetectionThenAction(
            SelectSeq(effects, LAMBDA e : e.type \in StoreTypes))

\* the field-capture half of it
C11_FieldCaptureOrder ==
    call.op = "capture_detect" =>
        CaptureThenDetectionThenAction(
            SelectSeq(effects, LAMBDA e : e.type \in StoreTypes))

\* a field capture of high severity was recorded and sprayed
C11_WitnessFieldCapture ==
    /\ call.op = "capture_detect"
    /\ call.severity = 90
    /\ Len(Stored("insert_action")) = 1
    /\ Len(Stored("spray")) = 1

\* C12: a detect_and_classify_leaf call causes no actuator call and no
\* capture, detection or action record, whatever severity the classifier
\* answers; only the field capture and the automatic flow drive the sprayer.
C12_ManualNoStoreNoSpray ==
    /\ call.op = "detect_and_classify_leaf" =>
         /\ Stored("spray") = <<>>
         /\ SelectSeq(effects, LAMBDA e : e.type \in StoreTypes) = <<>>
         /\ db = call.pre.db
    /\ Stored("spray") # <<>> => call.op \in {"capture_detect", "get_frame"}

\* the sprayer half of it
C12_ManualNeverSprays ==
    /\ call.op \in {"detect_and_classify_leaf", "upload_detect"} =>
         Stored("spray") = <<>>
    /\ Stored("spray") # <<>> => call.op \in {"capture_detect", "get_frame"}

\* a manual classification answered with a high severity, and no spray
C12_WitnessHighSeverity ==
    /\ call.op = "detect_and_classify_leaf"
    /\ call.ret.kind = "result"
    /\ call.ret.severity = 90
    /\ Stored("spray") = <<>>

\* C13: in the automatic flow the sprayer is driven exactly once, for the
\* decided duration, for each successfully classified candidate whose
\* decided duration is positive, and never for a candidate decided
\* ('none', 0); spray_for_ms with a duration of 0 or less writes nothing to
\* the pin.
C13_SprayOncePerPositiveDecision ==
    /\ IsBatch =>
         \A k \in 1..Len(call.outs) :
            call.outs[k].kind = "ok" =>
                LET duration_ms == _decide_action(config, call.outs[k].severity, TRUE)[2]
                    sprays == EffectsOf(k - 1, {"spray"})
                IN  IF duration_ms > 0
                    THEN /\ Len(sprays) = 1
                         /\ sprays[1].duration_ms = duration_ms
                    ELSE sprays = <<>>
    /\ (call.op = "spray_for_ms" /\ call.duration_ms <= 0) => effects = <<>>

\* the same for the batches run while the service holds an earlier frame
C13_SprayOnceWithHeldFrame ==
    /\ (IsBatch /\ call.pre.current_frame # None) =>
         \A k \in 1..Len(call.outs) :
            call.outs[k].kind = "ok" =>
                LET duration_ms == _decide_action(config, call.outs[k].severity, TRUE)[2]
                    sprays == EffectsOf(k - 1, {"spray"})
                IN  IF duration_ms > 0
                    THEN /\ Len(sprays) = 1
                         /\ sprays[1].duration_ms = duration_ms
                    ELSE sprays = <<>>
    /\ (call.op = "spray_for_ms" /\ call.duration_ms <= 0) => effects = <<>>

\* a batch with a frame held: one candidate sprayed short, one not sprayed
C13_WitnessHeldFrame ==
    /\ IsBatch
    /\ call.pre.current_frame # None
    /\ Len(call.outs) = 2
    /\ call.outs[1].kind = "ok" /\ call.outs[1].severity = 50
    /\ call.outs[2].kind = "ok" /\ call.outs[2].severity = 10
    /\ Len(EffectsOf(0, {"spray"})) = 1
    /\ EffectsOf(1, {"spray"}) = <<>>

(***************************************************************************)
(* Spec, continued: stopping and starting the session, the detections      *)
(* query.                                                                  *)
(***************************************************************************)
\* C14: after stop_camera, from any state, is_running is false, the capture
\* handle is released and unset, selected_regions is empty and current_frame
\* is cleared; while the session is not running get_frame returns None and
\* add_click_region and detect_and_classify_leaf create no region and
\* dispatch no classification.
C14_StoppedSession ==
    /\ call.op = "stop_camera" =>
         /\ ~is_running
         /\ cap = "none"
         /\ (call.pre.cap # "none") => effects = <<[type |-> "release"]>>
         /\ selected_regions = <<>>
         /\ current_frame = None
    /\ (call.op = "get_frame" /\ ~call.pre.is_running) =>
         /\ call.ret = None
         /\ effects = <<>>
         /\ current_frame = None
    /\ (call.op = "add_click_region" /\ ~call.pre.is_running) =>
         /\ call.ret = None
         /\ selected_regions = <<>>
    /\ (call.op = "detect_and_classify_leaf" /\ ~call.pre.is_running) =>
         /\ call.ret.kind = "error"
         /\ Dispatched = <<>>

\* a running session with a frame and a region was stopped
C14_Witness ==
    /\ call.op = "stop_camera"
    /\ call.pre.is_running
    /\ call.pre.cap = "opened"
    /\ call.pre.selected_regions # <<>>
    /\ call.pre.current_frame # None
    /\ selected_regions = <<>>
    /\ current_frame = None

\* a click after a stop, in Manual mode, created no region
C14_WitnessClickAfterStop ==
    /\ call.op = "add_click_region"
    /\ ~call.pre.is_running
    /\ ~call.pre.automatic_mode
    /\ call.x = 320 /\ call.y = 240
    /\ now - call.pre.last_click_time >= click_cooldown
    /\ call.pre.last_click_time > 0
    /\ call.ret = None

\* C19: when the camera fails to open, start_camera returns false and
\* afterwards is_running is false and no capture handle is held, whatever
\* the state before the call.
C19_FailedStartLeavesNothing ==
    (call.op = "start_camera" /\ call.outcome # "opened") =>
        /\ call.ret = FALSE
        /\ ~is_running
        /\ cap = "none"

\* the boolean half of it
C19_FailedStartReturnsFalse ==
    (call.op = "start_camera" /\ call.outcome # "opened") => call.ret = FALSE

\* a start that failed while a session was running
C19_WitnessFailedWhileRunning ==
    /\ call.op = "start_camera"
    /\ call.outcome = "unopened"
    /\ call.pre.is_running
    /\ call.ret = FALSE

\* C20: in Automatic mode, after an automatic batch has been processed,
\* get_automatic_detections returns that batch's per-candidate results,
\* the ones with an error field included; in Manual mode it returns an
\* empty list.
C20_QueryReturnsBatch ==
    call.op = "get_automatic_detections" =>
        IF call.pre.automatic_mode
        THEN call.batch # None => call.ret = call.batch[1]
        ELSE call.ret = <<>>

\* the Manual-mode half of it
C20_ManualQueryEmpty ==
    (call.op = "get_automatic_detections" /\ ~call.pre.automatic_mode) =>
        call.ret = <<>>

\* the query made right after a batch that held an error result
C20_WitnessAfterBatch ==
    /\ call.op = "get_automatic_detections"
    /\ call.pre.automatic_mode
    /\ call.batch # None
    /\ Len(call.batch[1]) = 1
    /\ "error" \in DOMAIN call.batch[1][1]

\* C29: between a start and the next stop selected_regions is append-only:
\* every operation leaves it as it is or appends one box at its end, so the
\* box at an index neither changes nor disappears, and a successful
\* add_click_region appends the very box it returns.
C29_AppendOnly ==
    [][/\ call'.op # "stop_camera" =>
            \/ selected_regions' = selected_regions
            \/ /\ Len(selected_regions') = Len(selected_regions) + 1
               /\ SubSeq(selected_regions', 1, Len(selected_regions)) = selected_regions
       /\ (call'.op = "add_click_region" /\ call' # call /\ call'.ret # None) =>
            selected_regions' = Append(selected_regions, call'.ret[1])
      ]_vars

\* a click in a running session added a second region behind the first one
C29_Witness ==
    /\ call.op = "add_click_region"
    /\ call.ret # None
    /\ Len(call.pre.selected_regions) = 1
    /\ is_running
    /\ selected_regions = Append(call.pre.selected_regions, call.ret[1])
    /\ selected_regions[1] = call.pre.selected_regions[1]

\* C30: toggle_automatic_mode changes the mode flag only: selected_regions,
\* current_frame, the click cooldown timer and the scheduler timer are as
\* before, so the regions selected in Manual mode are there, at the same
\* indices, after a round trip Manual -> Automatic -> Manual.
C30_ToggleChangesModeOnly ==
    call.op = "toggle_automatic_mode" =>
        /\ selected_regions = call.pre.selected_regions
        /\ current_frame = call.pre.current_frame
        /\ last_click_time = call.pre.last_click_time
        /\ last_auto_detection_time = call.pre.last_auto_detection_time
        /\ cap = call.pre.cap /\ is_running = call.pre.is_running
        /\ current_detections = call.pre.current_detections
        /\ db = call.pre.db
        /\ (call.again /\ ~call.start_mode) => selected_regions = call.start_regions

\* back in Manual mode after a round trip, two regions still selected
C30_Witness ==
    /\ call.op = "toggle_automatic_mode"
    /\ call.again /\ ~call.start_mode
    /\ ~automatic_mode
    /\ Len(selected_regions) = 2
    /\ selected_regions = call.start_regions

\* C25: a get_frame call in Manual mode does not evaluate automatic
\* detection: the detector is not run, last_auto_detection_time is neither
\* consulted nor reset, current_detections is unchanged and nothing is
\* classified, stored or sprayed.
C25_ManualFrameNoDetection ==
    (call.op = "get_frame" /\ ~call.pre.automatic_mode) =>
        /\ ~call.checked
        /\ ~call.run
        /\ call.detections = <<>> /\ call.results = <<>>
        /\ last_auto_detection_time = call.pre.last_auto_detection_time
        /\ current_detections = call.pre.current_detections
        /\ effects = <<>>
        /\ db = call.pre.db

\* a frame read in Manual mode at a time when a detection is due, the
\* detections of an earlier automatic frame still held
C25_Witness ==
    /\ call.op = "get_frame" /\ ~call.pre.automatic_mode
    /\ call.read_ok
    /\ call.t - call.pre.last_auto_detection_time >= 30
    /\ call.pre.last_auto_detection_time > 0
    /\ current_detections # <<>>

\* C26: when the frame source has no frame, get_frame returns None, runs no
\* detection and leaves the scheduler timer, current_detections,
\* current_frame, selected_regions, the mode and is_running as they were;
\* the session keeps running and the next frame that is read is processed
\* as usual.
C26_UnavailableFrameSkipped ==
    /\ Unavailable =>
         /\ call.ret = None
         /\ ~call.checked /\ ~call.run
         /\ effects = <<>>
         /\ db = call.pre.db
         /\ last_auto_detection_time = call.pre.last_auto_detection_time
         /\ current_detections = call.pre.current_detections
         /\ current_frame = call.pre.current_frame
         /\ selected_regions = call.pre.selected_regions
         /\ automatic_mode = call.pre.automatic_mode
         /\ is_running
    /\ (call.op = "get_frame" /\ call.after_unavailable /\ call.read_ok) =>
         /\ call.ret # None
         /\ current_frame = call.ret
         /\ call.checked = call.pre.automatic_mode
         /\ call.run =
              (call.pre.automatic_mode
                 /\ call.t - call.pre.last_auto_detection_time >= 30)

\* the read failed while a frame and selected regions were held
C26_Witness ==
    /\ Unavailable
    /\ call.pre.cap = "opened"
    /\ current_frame # None
    /\ selected_regions # <<>>
    /\ call.ret = None

\* right after a read that failed, a frame was read and a detection run
C26_WitnessNextFrame ==
    /\ call.op = "get_frame" /\ call.after_unavailable
    /\ call.read_ok /\ call.run
    /\ call.results # <<>>

(***************************************************************************)
(* LeafDetector: detect_leaves and its two variants.  What a variant's     *)
(* image processing does with a frame is its outcome: kind "ok" with what  *)
(* it yields (the network's output rows for the Model, the contours of the *)
(* green mask for the Fallback), or kind "raise".  Confidences are in      *)
(* ten-thousandths.                                                        *)
(*   a row      [class_id, confidence, box], box = <<x1, y1, x2, y2>> in   *)
(*              units of 1/CoordDenom of the frame's width and height      *)
(*   a contour  [area, x, y, w, h]: cv2.contourArea and cv2.boundingRect   *)
(***************************************************************************)
Found(raw) == [kind |-> "ok", raw |-> raw]
Raises == [kind |-> "raise", raw |-> <<>>]

\* resolution of the network's normalised coordinates
CoordDenom == 256

\* int(n / d): Python's int() truncates towards zero
Trunc(n, d) == IF n >= 0 THEN n \div d ELSE -((-n) \div d)

\* the box of a row scaled back to the frame and clamped to its bounds
ScaledBox(frame, row) ==
    LET x1 == Trunc(row.box[1] * frame.w, CoordDenom)
        y1 == Trunc(row.box[2] * frame.h, CoordDenom)
        x2 == Trunc(row.box[3] * frame.w, CoordDenom)
        y2 == Trunc(row.box[4] * frame.h, CoordDenom)
    IN  <<Max(0, x1), Max(0, y1), Min(frame.w, x2), Min(frame.h, y2)>>

\* the size test of detect_leaves passing sides of exactly 50
LargeEnoughInclusive(box) ==
    (box[3] - box[1]) >= MinDetectedSide /\ (box[4] - box[2]) >= MinDetectedSide

\* detect_leaves: "Only add if bounding box is large enough"
LargeEnough(box) ==
    (box[3] - box[1]) > MinDetectedSide /\ (box[4] - box[2]) > MinDetectedSide

\* detect_leaves: whether a row of the network's output becomes a leaf
ModelKeeps(frame, row) ==
    /\ row.confidence > confidence_threshold
    /\ row.class_id = LeafClassId
    /\ LargeEnough(ScaledBox(frame, row))

\* detect_leaves: the leaves appended for the rows, in the rows' order
ModelLeaves(frame, rows) ==
    LET kept == SelectSeq(rows, LAMBDA row : ModelKeeps(frame, row))
    IN  [i \in 1..Len(kept) |->
            LET b == ScaledBox(frame, kept[i])
            IN  <<b[1], b[2], b[3], b[4], kept[i].confidence>>]

\* the aspect test of _fallback_leaf_detection passing 0.3 and 3.0
ReasonableAspectInclusive(w, h) ==
    IF h > 0 THEN 3 * h <= 10 * w /\ w <= 3 * h ELSE FALSE

\* _fallback_leaf_detection: aspect_ratio = w / h if h > 0 else 0;
\* 0.3 < aspect_ratio < 3.0
ReasonableAspect(w, h) ==
    IF h > 0 THEN 3 * h < 10 * w /\ w < 3 * h ELSE FALSE

\* _fallback_leaf_detection: whether a contour becomes a leaf
FallbackKeeps(c) == c.area > MinContourArea /\ ReasonableAspect(c.w, c.h)

\* _fallback_leaf_detection: min(0.8, area / 10000) in ten-thousandths
FallbackConfidence(area) ==
    Min(MaxFallbackConfidence, (area * 10000) \div ConfidenceScale)

\* _fallback_leaf_detection: the leaves appended for the contours
FallbackLeaves(contours) ==
    LET kept == SelectSeq(contours, FallbackKeeps)
    IN  [i \in 1..Len(kept) |->
            LET c == kept[i]
            IN  <<c.x, c.y, c.x + c.w, c.y + c.h, FallbackConfidence(c.area)>>]

\* _fallback_leaf_detection that lets its error out
_fallback_leaf_detection_raising(fallback_out) ==
    IF fallback_out.kind = "ok"
    THEN [kind |-> "return", leaves |-> FallbackLeaves(fallback_out.raw)]
    ELSE [kind |-> "raise", leaves |-> <<>>]

\* _fallback_leaf_detection(frame)
_fallback_leaf_detection(fallback_out) ==
    IF fallback_out.kind = "ok"
    THEN [kind |-> "return", leaves |-> FallbackLeaves(fallback_out.raw)]
    ELSE [kind |-> "return", leaves |-> <<>>]

\* detect_leaves(frame) with the detector in state det: how the call ends,
\* the leaves returned, and the variants that ran
detect_leaves(det, frame, model_out, fallback_out) ==
    IF ~det.is_initialized \/ det.net = "none"
    THEN _fallback_leaf_detection(fallback_out) @@ [ran |-> <<"fallback">>]
    ELSE IF model_out.kind = "ok"
    THEN [kind |-> "return", leaves |-> ModelLeaves(frame, model_out.raw),
          ran |-> <<"model">>]
    ELSE _fallback_leaf_detection(fallback_out) @@ [ran |-> <<"model", "fallback">>]

\* leaf_detection_service.detect_leaves_in_frame(frame)
DetectLeaves(frame, model_out, fallback_out) ==
    LET r == detect_leaves(detector, frame, model_out, fallback_out)
    IN  /\ call' = [op |-> "detect_leaves", pre |-> Pre, frame |-> frame,
                    model_out |-> model_out,
                    fallback_out |-> fallback_out, ran |-> r.ran,
                    failed_before |-> seen.init_failed,
                    ret |-> [kind |-> r.kind, leaves |-> r.leaves]]
        /\ effects' = <<>>
        /\ UNCHANGED <<now, serviceVars, config, detector, flight, seen, probes,
                       checkLog, clickLog>>

(***************************************************************************)
(* SpecDetector: camera starts and stops with the model files present or   *)
(* not, and detections between them.                                       *)
(***************************************************************************)
SeqsUpTo(S, n) == UNION {[1..k -> S] : k \in 0..n}

Row(class_id, confidence, box) ==
    [class_id |-> class_id, confidence |-> confidence, box |-> box]

\* rows of the network's output for a 640 x 480 frame:
\*   a leaf whose scaled box is (50, 0, 100, 50), 50 x 50 pixels
RowExact50 == Row(LeafClassId, 9000, <<20, 0, 40, 27>>)
\*   a leaf whose scaled box is (50, 0, 102, 52), 52 x 52 pixels
RowJustOver == Row(LeafClassId, 9000, <<20, 0, 41, 28>>)
\*   a leaf of a quarter of the frame with confidence exactly 0.5
RowAtThreshold == Row(LeafClassId, confidence_threshold, <<0, 0, 128, 128>>)
\*   an object of another class, confidence 0.9, a quarter of the frame
RowOtherClass == Row(LeafClassId + 1, 9000, <<0, 0, 128, 128>>)
\*   a leaf reaching past every edge of the frame
RowOutside == Row(LeafClassId, 6000, <<-10, -10, 300, 300>>)
\*   a leaf 137 pixels wide of which 28 are inside the frame
RowClampedSmall == Row(LeafClassId, 9000, <<245, 0, 300, 128>>)

RawRows == {RowExact50, RowJustOver, RowAtThreshold, RowOtherClass, RowOutside,
            RowClampedSmall}
OrderRows == {RowJustOver, RowOutside}

Contour(area, x, y, w, h) == [area |-> area, x |-> x, y |-> y, w |-> w, h |-> h]

\* contours of the green mask:
\*   the rectangle (100,100)-(300,400) of test_leaf_detector
ContourTest == Contour(60000, 100, 100, 201, 301)
\*   area exactly 1000
ContourArea1000 == Contour(1000, 10, 10, 41, 26)
\*   width / height exactly 0.3
ContourAspectLow == Contour(1200, 10, 10, 30, 100)
\*   width / height exactly 3.0
ContourAspectHigh == Contour(1200, 10, 10, 90, 30)
\*   a narrow blade, 20 x 62 pixels
ContourNarrow == Contour(1150, 200, 10, 20, 62)
\*   area 5000, confidence 0.5
ContourMid == Contour(5000, 300, 300, 81, 71)

Contours == {ContourTest, ContourArea1000, ContourAspectLow, ContourAspectHigh,
             ContourNarrow, ContourMid}
OrderContours == {ContourTest, ContourNarrow}

\* the frame handed to the detector
DetectorFrame == Frame(1, CameraWidth, CameraHeight)

ModelOutcomes ==
    {Found(s) : s \in SeqsUpTo(RawRows, 1) \cup {<<r, q>> : r, q \in OrderRows}}
      \cup {Raises}

FallbackOutcomes ==
    {Found(s) : s \in SeqsUpTo(Contours, 1) \cup SeqsUpTo(OrderContours, MaxLeaves)}
      \cup {Raises}

InitDetector ==
    /\ now = ClockStart
    /\ ServiceInit
    /\ config = DefaultConfig
    /\ probes = {}

NextDetector ==
    \/ \E o \in {"opened", "unopened"}, loads \in BOOLEAN : StartCamera(o, loads)
    \/ StopCamera
    \/ \E mo \in ModelOutcomes, fo \in FallbackOutcomes :
          DetectLeaves(DetectorFrame, mo, fo)

SpecDetector == InitDetector /\ [][NextDetector]_vars

\* C17: once the model's initialization has failed, every later detect call
\* uses the Fallback variant and the initialization is never attempted
\* again, across camera starts, stops and detections.
C17_FallbackIsPermanent ==
    /\ (call.op = "start_camera" /\ call.failed_before) => call.model = None
    /\ (call.op = "detect_leaves" /\ call.failed_before) => call.ran = <<"fallback">>

\* while the last initialization is a failed one, detection is the Fallback's
C17_FallbackAfterFailedInit ==
    (call.op = "detect_leaves" /\ ~call.pre.detector.is_initialized) =>
        call.ran = <<"fallback">>

\* a detection by the Fallback after a failed initialization
C17_WitnessFallback ==
    /\ call.op = "detect_leaves"
    /\ call.failed_before
    /\ ~call.pre.detector.is_initialized
    /\ call.ran = <<"fallback">>
    /\ call.ret.leaves # <<>>

\* C18: detect_leaves never raises: an error during Model inference gives
\* the Fallback's result for the frame, an error inside the Fallback gives
\* an empty list; a failed model initialization is reported as False while
\* the service's initialization still succeeds.
C18_DetectNeverRaises ==
    /\ call.op = "detect_leaves" =>
         /\ call.ret.kind = "return"
         /\ (call.ran[1] = "model" /\ call.model_out.kind = "raise") =>
              /\ call.ran = <<"model", "fallback">>
              /\ call.fallback_out.kind = "ok" =>
                   call.ret.leaves = FallbackLeaves(call.fallback_out.raw)
         /\ (call.ran[Len(call.ran)] = "fallback" /\ call.fallback_out.kind = "raise") =>
              call.ret.leaves = <<>>
    /\ (call.op = "start_camera" /\ call.model = Some(FALSE)) =>
         /\ call.service = Some(TRUE)
         /\ call.ret = TRUE
         /\ ~detector.is_initialized

\* the Model raised during inference, then the Fallback raised too
C18_Witness ==
    /\ call.op = "detect_leaves"
    /\ call.ran = <<"model", "fallback">>
    /\ call.model_out.kind = "raise"
    /\ call.fallback_out.kind = "raise"
    /\ call.ret = [kind |-> "return", leaves |-> <<>>]

\* the Model raised during inference and the Fallback found a leaf
C18_WitnessFallbackResult ==
    /\ call.op = "detect_leaves"
    /\ call.ran = <<"model", "fallback">>
    /\ call.model_out.kind = "raise"
    /\ call.fallback_out.kind = "ok"
    /\ call.ret.leaves # <<>>

IsDetect == call.op = "detect_leaves"
ModelRan == IsDetect /\ call.ran = <<"model">>
FallbackRan ==
    IsDetect /\ call.ran[Len(call.ran)] = "fallback" /\ call.fallback_out.kind = "ok"

Width(b) == b[3] - b[1]
Height(b) == b[4] - b[2]

\* C21: every candidate detect_leaves returns, from the Model or from the
\* Fallback, has a box at least 50 pixels wide and at least 50 pixels high.
C21_DetectedBoxesAtLeast50 ==
    IsDetect =>
        \A i \in 1..Len(call.ret.leaves) :
            /\ Width(call.ret.leaves[i]) >= MinDetectedSide
            /\ Height(call.ret.leaves[i]) >= MinDetectedSide

\* the candidates of the Model are more than 50 pixels wide and high
C21_ModelBoxesOver50 ==
    ModelRan =>
        \A i \in 1..Len(call.ret.leaves) :
            /\ Width(call.ret.leaves[i]) > MinDetectedSide
            /\ Height(call.ret.leaves[i]) > MinDetectedSide

\* the Fallback returned the narrow blade, 20 pixels wide
C21_WitnessNarrow ==
    /\ FallbackRan
    /\ call.fallback_out.raw = <<ContourNarrow>>
    /\ Len(call.ret.leaves) = 1
    /\ Width(call.ret.leaves[1]) = 20

\* the candidates expected of the Model for the rows, a row being kept
\* when the sides of its scaled and clamped box are at least `least`
ExpectedOfModel(frame, rows, least) ==
    LET kept == SelectSeq(rows, LAMBDA row :
                    /\ row.class_id = LeafClassId
                    /\ row.confidence > confidence_threshold
                    /\ Width(ScaledBox(frame, row)) >= least
                    /\ Height(ScaledBox(frame, row)) >= least)
    IN  [i \in 1..Len(kept) |->
            ScaledBox(frame, kept[i]) \o <<kept[i].confidence>>]

\* C22 as stated: the Model keeps a row if and only if its class is leaf,
\* its confidence exceeds the threshold and its scaled, clamped box is at
\* least 50 pixels wide and high (50 x 50 kept), in discovery order.
C22_ModelKeepsAtLeast50 ==
    ModelRan =>
        call.ret.leaves =
            ExpectedOfModel(call.frame, call.model_out.raw, 50)

\* C22 amended: the Model keeps a row if and only if its class is leaf, its
\* confidence exceeds the threshold and its scaled, clamped box is more
\* than 50 pixels wide and more than 50 pixels high (a box of exactly
\* 50 x 50 is discarded); kept rows appear in discovery order.
C22_ModelKeepsOver50 ==
    ModelRan =>
        call.ret.leaves =
            ExpectedOfModel(call.frame, call.model_out.raw, 50 + 1)

\* the Model found a leaf of exactly 50 x 50 pixels and returned nothing
C22_Witness ==
    /\ ModelRan
    /\ call.model_out.raw = <<RowExact50>>
    /\ ScaledBox(call.frame, RowExact50) = <<50, 0, 100, 50>>
    /\ call.ret.leaves = <<>>

\* two rows kept, in the order of the rows, the second clamped to the frame
C22_WitnessOrder ==
    /\ ModelRan
    /\ call.model_out.raw = <<RowJustOver, RowOutside>>
    /\ call.ret.leaves = << <<50, 0, 102, 52, 9000>>,
                            <<0, 0, CameraWidth, CameraHeight, 6000>> >>

\* the candidates expected of the Fallback for the contours, a contour
\* being kept when its area is over 1000 and its width/height ratio is in
\* the range from 0.3 to 3.0, closed or open
ExpectedOfFallback(contours, closed) ==
    LET kept == SelectSeq(contours, LAMBDA c :
                    /\ c.area > 1000
                    /\ IF closed THEN 3 * c.h <= 10 * c.w /\ c.w <= 3 * c.h
                                 ELSE 3 * c.h < 10 * c.w /\ c.w < 3 * c.h)
    IN  [i \in 1..Len(kept) |->
            <<kept[i].x, kept[i].y, kept[i].x + kept[i].w, kept[i].y + kept[i].h,
              IF kept[i].area >= 8000 THEN 8000 ELSE kept[i].area>>]

\* C23 as stated: the Fallback emits a candidate for a contour if and only
\* if its area is greater than 1000 and its width/height ratio is in the
\* closed range [0.3, 3.0], with confidence min(0.8, area/10000).
C23_FallbackClosedRange ==
    FallbackRan =>
        call.ret.leaves =
            ExpectedOfFallback(call.fallback_out.raw, TRUE)

\* C23 amended: the Fallback emits a candidate for a contour if and only if
\* its area is greater than 1000 and its width/height ratio is strictly
\* between 0.3 and 3.0 (ratios of exactly 0.3 and 3.0 are rejected); the
\* confidence is min(0.8, area/10000), never above 0.8; a frame without
\* green pixels (no contour) yields an empty sequence.
C23_FallbackOpenRange ==
    FallbackRan =>
        /\ call.ret.leaves =
               ExpectedOfFallback(call.fallback_out.raw, FALSE)
        /\ \A i \in 1..Len(call.ret.leaves) : call.ret.leaves[i][5] <= 8000
        /\ call.fallback_out.raw = <<>> => call.ret.leaves = <<>>

\* a contour of ratio exactly 0.3 gave no candidate
C23_Witness ==
    /\ FallbackRan
    /\ call.fallback_out.raw = <<ContourAspectLow>>
    /\ 10 * ContourAspectLow.w = 3 * ContourAspectLow.h
    /\ call.ret.leaves = <<>>

\* the rectangle of test_leaf_detector: one candidate, confidence 0.8
C23_WitnessTestRectangle ==
    /\ FallbackRan
    /\ call.fallback_out.raw = <<ContourTest>>
    /\ call.ret.leaves = << <<100, 100, 301, 401, 8000>> >>

(***************************************************************************)
(* get_frame step by step, as one of several threads runs it (each client  *)
(* of /video_feed has its own loop; the other routes run in threads of     *)
(* their own; nothing in the service is locked).  The steps of loop l:     *)
(*   FrameBegin   the test of is_running and cap                           *)
(*   FrameRead    cap.read()                                               *)
(*   FrameDetect  the scheduler check; when due, the detector runs and     *)
(*                the batch's classification work starts                   *)
(*   BatchEnd     the batch's classification, logging and spraying end     *)
(*   FrameFinish  the annotated frame is stored and returned               *)
(***************************************************************************)
StepVars == <<cap, is_running, selected_regions, automatic_mode, last_click_time,
              last_detection_time, config, detector, seen, probes, checkLog,
              clickLog>>

FrameBegin(l) ==
    LET live == is_running /\ cap # "none"
    IN  /\ flight[l].pc = "idle"
        /\ flight' = [flight EXCEPT ![l] =
                        IF live THEN [pc |-> "reading", stopped |-> FALSE] ELSE Idle]
        /\ call' = [op |-> "get_frame.begin", loop |-> l, pre |-> Pre,
                    done |-> ~live, ret |-> None]
        /\ effects' = <<>>
        /\ UNCHANGED <<now, StepVars, current_frame, last_auto_detection_time,
                       current_detections, db>>

\* cap.read(): on a handle unset meanwhile the attribute access raises, on a
\* handle that is not open no frame comes
FrameRead(l, frame) ==
    LET got == cap = "opened"
    IN  /\ flight[l].pc = "reading"
        /\ flight' = [flight EXCEPT ![l] =
                        IF got THEN [pc |-> "read", stopped |-> flight[l].stopped,
                                     frame |-> frame]
                        ELSE Idle]
        /\ call' = [op |-> "get_frame.read", loop |-> l, pre |-> Pre,
                    stopped |-> flight[l].stopped, done |-> ~got,
                    ret |-> IF cap = "none"
                            THEN [kind |-> "raise", error |-> "AttributeError"]
                            ELSE [kind |-> "return"]]
        /\ effects' = <<>>
        /\ UNCHANGED <<now, StepVars, current_frame, last_auto_detection_time,
                       current_detections, db>>

FrameDetect(l, detections, outs) ==
    LET r == _should_run_auto_detection(last_auto_detection_time, now)
        run == automatic_mode /\ r.ret
        others == {k \in Loops \ {l} : flight[k].pc = "batch"}
    IN  /\ flight[l].pc = "read"
        /\ Len(outs) = Len(detections)
        /\ ~run => detections = <<>>
        /\ last_auto_detection_time' = IF automatic_mode THEN r.last
                                       ELSE last_auto_detection_time
        /\ current_detections' = IF run THEN detections ELSE current_detections
        /\ flight' = [flight EXCEPT ![l] =
                        IF run /\ detections # <<>>
                        THEN [pc |-> "batch", stopped |-> flight[l].stopped,
                              frame |-> flight[l].frame,
                              detections |-> detections, outs |-> outs]
                        ELSE [pc |-> "annotate", stopped |-> flight[l].stopped,
                              frame |-> flight[l].frame]]
        /\ call' = [op |-> "get_frame.detect", loop |-> l, pre |-> Pre,
                    stopped |-> flight[l].stopped, run |-> run,
                    detections |-> detections, outstanding |-> others]
        /\ effects' = <<>>
        /\ UNCHANGED <<now, StepVars, current_frame, db>>

BatchEnd(l) ==
    LET d == _process_detections_async(flight[l].detections, flight[l].outs,
                                       current_frame, db, config)
    IN  /\ flight[l].pc = "batch"
        /\ db' = d.db
        /\ effects' = d.effects
        /\ flight' = [flight EXCEPT ![l] =
                        [pc |-> "annotate", stopped |-> flight[l].stopped,
                         frame |-> flight[l].frame]]
        /\ call' = [op |-> "get_frame.batch", loop |-> l, pre |-> Pre,
                    stopped |-> flight[l].stopped, results |-> d.results]
        /\ UNCHANGED <<now, StepVars, current_frame, last_auto_detection_time,
                       current_detections>>

FrameFinish(l) ==
    /\ flight[l].pc = "annotate"
    /\ current_frame' = Some(Annotated(flight[l].frame))
    /\ flight' = [flight EXCEPT ![l] = Idle]
    /\ call' = [op |-> "get_frame.finish", loop |-> l, pre |-> Pre,
                stopped |-> flight[l].stopped,
                ret |-> Some(Annotated(flight[l].frame))]
    /\ effects' = <<>>
    /\ UNCHANGED <<now, StepVars, last_auto_detection_time, current_detections, db>>

(***************************************************************************)
(* SpecRace: the frame loops step by step, with stop_camera, start_camera, *)
(* the mode toggle and clicks arriving between their steps.                *)
(***************************************************************************)
InitRace ==
    /\ now = ClockStart
    /\ ServiceInit
    /\ config = DefaultConfig
    /\ probes = {}

NextRace ==
    \/ Tick(auto_detection_interval)
    \/ StartCamera("opened", FALSE)
    \/ StopCamera
    \/ ToggleAutomaticMode
    \/ AddClickRegion(320, 240)
    \/ \E l \in Loops : FrameBegin(l)
    \/ \E l \in Loops, f \in CameraFrames : FrameRead(l, f)
    \/ \E l \in Loops, d \in Batches(1) :
         \E outs \in [1..Len(d) -> Outcomes({90})] : FrameDetect(l, d, outs)
    \/ \E l \in Loops : BatchEnd(l)
    \/ \E l \in Loops : FrameFinish(l)

SpecRace == InitRace /\ [][NextRace]_vars

\* C15: a get_frame whose frame read started before a stop_camera does not
\* act on the frame after the stop: it dispatches no detection and does not
\* set current_frame, and no region is appended to selected_regions after
\* the stop until the session is started again.
C15_NoActionAfterStop ==
    /\ (call.op = "get_frame.detect" /\ call.stopped) => ~call.run
    /\ (call.op = "get_frame.batch" /\ call.stopped) => effects = <<>>
    /\ (call.op = "get_frame.finish" /\ call.stopped) =>
         current_frame = call.pre.current_frame
    /\ (call.op = "add_click_region" /\ ~call.pre.is_running) =>
         /\ call.ret = None
         /\ selected_regions = call.pre.selected_regions

\* a get_frame in flight when stop_camera ran
C15_WitnessStopInFlight ==
    /\ call.op = "stop_camera"
    /\ \E l \in Loops : flight[l].pc = "read" /\ flight[l].stopped

\* C16: at most one automatic detection batch is in flight at any time,
\* whichever frame loops call get_frame: a scheduled tick that fires while
\* a batch's classification calls are outstanding is skipped.
C16_OneBatchInFlight ==
    Cardinality({l \in Loops : flight[l].pc = "batch"}) <= 1

\* the tick of one loop found due while another loop's batch is outstanding
C16_WitnessTickDuringBatch ==
    /\ call.op = "get_frame.detect"
    /\ call.pre.automatic_mode
    /\ call.outstanding # {}

(***************************************************************************)
(* add_click_region and detect_and_classify_leaf step by step, as the      *)
(* thread of a request runs them while other threads run (nothing in the   *)
(* service is locked).  The steps of thread l:                             *)
(*   ClickBegin     the tests of automatic_mode and current_frame          *)
(*   ClickSelect    selector.create_region_from_click on current_frame     *)
(*   ClickAppend    selected_regions.append(region), return region         *)
(*   ClassifyBegin  the tests, the crop, the temporary file and the        *)
(*                  classification request sent                            *)
(*   ClassifyEnd    the answer to the request, and the return              *)
(***************************************************************************)
ManualVars == <<cap, is_running, current_frame, automatic_mode,
                last_auto_detection_time, current_detections,
                last_detection_time, config, detector, seen, probes, checkLog>>

ClickBegin(l, click_x, click_y) ==
    LET go == ~automatic_mode /\ current_frame # None
    IN  /\ flight[l].pc = "idle"
        /\ flight' = [flight EXCEPT ![l] =
                        IF go THEN [pc |-> "click_checked", stopped |-> FALSE,
                                    x |-> click_x, y |-> click_y]
                        ELSE Idle]
        /\ call' = [op |-> "add_click_region.begin", thread |-> l, pre |-> Pre,
                    done |-> ~go, ret |-> None]
        /\ effects' = <<>>
        /\ UNCHANGED <<now, ManualVars, selected_regions, last_click_time, db,
                       clickLog>>

\* create_region_from_click(self.current_frame, ...): when current_frame
\* was unset meanwhile, frame.shape raises after the timer was set
ClickSelect(l) ==
    LET x == flight[l].x
        y == flight[l].y
        r == IF current_frame # None
             THEN create_region_from_click(last_click_time, now, current_frame[1], x, y)
             ELSE IF now - last_click_time < click_cooldown
             THEN [ret |-> None, last_click_time |-> last_click_time, passed |-> FALSE]
             ELSE [ret |-> None, last_click_time |-> now, passed |-> TRUE]
        raised == current_frame = None /\ r.passed
    IN  /\ flight[l].pc = "click_checked"
        /\ last_click_time' = r.last_click_time
        /\ flight' = [flight EXCEPT ![l] =
                        IF r.ret # None
                        THEN [pc |-> "click_append", stopped |-> flight[l].stopped,
                              region |-> r.ret[1]]
                        ELSE Idle]
        /\ clickLog' = IF current_frame # None
                       THEN LogClick(ClickEntry(now, current_frame[1], x, y, r))
                       ELSE clickLog
        /\ call' = [op |-> "add_click_region.select", thread |-> l, pre |-> Pre,
                    done |-> r.ret = None,
                    ret |-> IF raised
                            THEN [kind |-> "raise", error |-> "AttributeError"]
                            ELSE [kind |-> "return"]]
        /\ effects' = <<>>
        /\ UNCHANGED <<now, ManualVars, selected_regions, db>>

ClickAppend(l) ==
    /\ flight[l].pc = "click_append"
    /\ selected_regions' = Append(selected_regions, flight[l].region)
    /\ flight' = [flight EXCEPT ![l] = Idle]
    /\ call' = [op |-> "add_click_region.append", thread |-> l, pre |-> Pre,
                stopped |-> flight[l].stopped, ret |-> Some(flight[l].region)]
    /\ effects' = <<>>
    /\ UNCHANGED <<now, ManualVars, last_click_time, db, clickLog>>

ClassifyBegin(l, region_index) ==
    LET rejected ==
            IF automatic_mode
            THEN Some("Manual detection disabled in automatic mode")
            ELSE IF selected_regions = <<>> \/ region_index >= Len(selected_regions)
            THEN Some("Invalid region index")
            ELSE IF current_frame = None
            THEN Some("No frame available")
            ELSE None
        raises == rejected = None /\ ~PyIndexable(selected_regions, region_index)
        sends == rejected = None /\ ~raises
        bbox == PyIndex(selected_regions, region_index)
    IN  /\ flight[l].pc = "idle"
        /\ flight' = [flight EXCEPT ![l] =
                        IF sends
                        THEN [pc |-> "classifying", stopped |-> FALSE,
                              region_index |-> region_index, bbox |-> bbox]
                        ELSE Idle]
        /\ call' = [op |-> "detect_and_classify_leaf.begin", thread |-> l,
                    pre |-> Pre, region_index |-> region_index, done |-> ~sends,
                    ret |-> IF rejected # None
                            THEN [kind |-> "error", error |-> rejected[1]]
                            ELSE IF raises
                            THEN [kind |-> "raise", error |-> "IndexError"]
                            ELSE [kind |-> "pending"]]
        /\ effects' = IF sends
                      THEN <<[type |-> "tmp_write", src |-> "manual",
                              leaf_index |-> region_index],
                             [type |-> "classify", src |-> "manual",
                              bbox |-> bbox, leaf_index |-> region_index]>>
                      ELSE <<>>
        /\ UNCHANGED <<now, ManualVars, selected_regions, last_click_time, db,
                       clickLog>>

ClassifyEnd(l, out) ==
    LET served == upload_detect(db, out, flight[l].region_index)
    IN  /\ flight[l].pc = "classifying"
        /\ out.kind # "io"
        /\ db' = served.db
        /\ flight' = [flight EXCEPT ![l] = Idle]
        /\ call' = [op |-> "detect_and_classify_leaf.end", thread |-> l,
                    pre |-> Pre, region_index |-> flight[l].region_index,
                    bbox |-> flight[l].bbox, out |-> out,
                    stopped |-> flight[l].stopped,
                    ret |-> manual_reply(automatic_mode, out)]
        /\ effects' = served.effects
                        \o (IF out.kind = "http" THEN <<>>
                            ELSE <<[type |-> "tmp_remove", src |-> "manual",
                                    leaf_index |-> flight[l].region_index]>>)
        /\ UNCHANGED <<now, ManualVars, selected_regions, last_click_time, clickLog>>

(***************************************************************************)
(* SpecMode: a running session with one frame loop and one thread serving  *)
(* the operator's requests, the mode toggle arriving between their steps.  *)
(***************************************************************************)
FrameLoop == 1
RequestThread == MaxLoops

InitMode ==
    /\ now = ClockStart
    /\ ServiceInit
    /\ config = DefaultConfig
    /\ probes = {}

NextMode ==
    \/ Tick(click_cooldown)
    \/ StartCamera("opened", FALSE)
    \/ ToggleAutomaticMode
    \/ FrameBegin(FrameLoop)
    \/ \E f \in CameraFrames : FrameRead(FrameLoop, f)
    \/ \E d \in Batches(1) :
         \E outs \in [1..Len(d) -> {Failure("http")}] : FrameDetect(FrameLoop, d, outs)
    \/ BatchEnd(FrameLoop)
    \/ FrameFinish(FrameLoop)
    \/ \E c \in ManualPoints : ClickBegin(RequestThread, c[1], c[2])
    \/ ClickSelect(RequestThread)
    \/ ClickAppend(RequestThread)
    \/ \E i \in 0..1 : ClassifyBegin(RequestThread, i)
    \/ \E out \in Outcomes({90}) : db.captures < MaxRecords /\ ClassifyEnd(RequestThread, out)

SpecMode == InitMode /\ [][NextMode]_vars

ValidBox(b, frame) ==
    /\ Len(b) = 4
    /\ 0 <= b[1] /\ b[1] < b[3] /\ b[3] <= frame.w
    /\ 0 <= b[2] /\ b[2] < b[4] /\ b[4] <= frame.h
    /\ b[3] - b[1] >= 100 /\ b[4] - b[2] >= 100

\* C27: under any interleaving of toggle_automatic_mode with
\* add_click_region and get_frame, selected_regions is a sequence of
\* complete valid boxes, and no region is appended to it while the mode is
\* Automatic.
C27_NoAppendInAutomatic ==
    /\ \A i \in 1..Len(selected_regions) :
          ValidBox(selected_regions[i], DetectorFrame)
    /\ call.op = "add_click_region.append" => ~call.pre.automatic_mode

\* selected_regions holds complete valid boxes at every moment
C27_RegionsAreValidBoxes ==
    \A i \in 1..Len(selected_regions) : ValidBox(selected_regions[i], DetectorFrame)

\* the mode was switched to Automatic between add_click_region's test of
\* the mode and its append, and the region was appended
C27_WitnessToggleBetween ==
    /\ call.op = "add_click_region.append"
    /\ call.pre.automatic_mode
    /\ automatic_mode
    /\ selected_regions = Append(call.pre.selected_regions, call.ret[1])

IsClassifyEnd == call.op = "detect_and_classify_leaf.end"

\* C28: a mode toggle that arrives after detect_and_classify_leaf passed its
\* mode test and sent its classification request does not invalidate the
\* call: it returns the classifier's result, or its error, for the region
\* it was started on.
C28_InFlightClassificationStands ==
    IsClassifyEnd =>
        /\ call.out.kind = "ok" =>
             call.ret = [kind |-> "result", disease |-> call.out.disease,
                         severity |-> call.out.severity]
        /\ call.out.kind = "http" =>
             call.ret = [kind |-> "error", error |-> "API request failed"]
        /\ call.out.kind = "exc" =>
             call.ret = [kind |-> "error", error |-> "Detection failed"]
        /\ call.bbox = call.pre.selected_regions[call.region_index + 1]

\* the mode was switched to Automatic while the request was out, and the
\* classifier's result was returned
C28_Witness ==
    /\ IsClassifyEnd
    /\ call.pre.automatic_mode
    /\ call.out.kind = "ok"
    /\ call.ret.kind = "result" /\ call.ret.severity = 90

(***************************************************************************)
(* The frame an automatic detection's image is cropped from (SpecBatch).   *)
(***************************************************************************)
\* the frame cap.read() delivered to the get_frame call, as read
FrameRun == [call.ret[1] EXCEPT !.annotated = FALSE]

Imwrites == SelectSeq(effects, LAMBDA e : e.type = "imwrite")

\* C31: the image persisted for an automatic detection is cropped from the
\* frame on which the detector produced the candidate's bounding box, not
\* from an earlier or an annotated frame, in every get_frame call that runs
\* a detection, the first frame of a session included.
C31_CropFromDetectedFrame ==
    IsBatch =>
        /\ \A k \in 1..Len(Imwrites) : Imwrites[k].frame = FrameRun
        /\ \A i \in 1..Len(call.results) :
              "error" \notin DOMAIN call.results[i] =>
                  \E k \in 1..Len(Imwrites) :
                      /\ Imwrites[k].bbox = BBoxOf(call.detections[i])
                      /\ Imwrites[k].frame = FrameRun

\* a classified candidate's image was cropped from the annotated frame of
\* the call before
C31_WitnessEarlierFrame ==
    /\ IsBatch
    /\ Len(Imwrites) >= 1
    /\ Imwrites[1].frame = call.pre.current_frame[1]
    /\ Imwrites[1].frame.annotated
    /\ Imwrites[1].bbox = BBoxOf(call.detections[1])

\* on the first frame of a session a classified candidate is not persisted
C31_WitnessFirstFrame ==
    /\ IsBatch
    /\ call.pre.current_frame = None
    /\ "error" \notin DOMAIN call.results[1]
    /\ Imwrites = <<>>

(***************************************************************************)
(* SpecAgree: the two decision functions asked the same question, under    *)
(* every configuration of thresholds and durations, the durations whole    *)
(* or fractional milliseconds.                                             *)
(***************************************************************************)
\* configured durations from 0 to MaxDuration ms, in steps of 1/DurationUnit
ConfiguredDurations == 0..Ms(MaxDuration)

\* routes.decide_action(severity) and video_service._decide_action(severity)
\* called under the same configuration
DecideBoth(severity) ==
    /\ call' = [op |-> "decide_both", severity |-> severity,
                route |-> decide_action(config, severity),
                video |-> _decide_action(config, severity, TRUE)]
    /\ UNCHANGED <<now, serviceVars, config, detector, flight, seen, effects,
                   probes, checkLog, clickLog>>

InitAgree ==
    /\ now = ClockStart
    /\ ServiceInit
    /\ probes = {}
    /\ config \in [low : DecideSeverities, high : DecideSeverities,
                   dur_low : ConfiguredDurations, dur_high : ConfiguredDurations]

NextAgree == \E s \in DecideSeverities : DecideBoth(s)

SpecAgree == InitAgree /\ [][NextAgree]_vars

WholeMs(v) == v % DurationUnit = 0

\* C32: for every severity and every configuration of thresholds and
\* durations, VideoCaptureService._decide_action returns the same
\* (action, duration_ms) as routes.decide_action.
C32_DecisionsAgree ==
    call.op = "decide_both" => call.video = call.route

\* under durations of whole milliseconds the two functions agree
C32_AgreeOnWholeDurations ==
    (call.op = "decide_both" /\ WholeMs(config.dur_low) /\ WholeMs(config.dur_high))
        => call.video = call.route

\* a short spray configured as 1.5 ms: the field-capture decision is 1 ms,
\* the automatic flow's is 1.5 ms
C32_WitnessFraction ==
    /\ call.op = "decide_both"
    /\ config.dur_low = Ms(1) + 1
    /\ call.route = <<"spray_short", Ms(1)>>
    /\ call.video = <<"spray_short", Ms(1) + 1>>

(***************************************************************************)
(* The temporary image files of the classification requests (Spec).        *)
(***************************************************************************)
\* the temporary file written at position k of effects is removed later in
\* the same call
RemovedLater(k) ==
    \E j \in (k + 1)..Len(effects) :
        /\ effects[j].type = "tmp_remove"
        /\ effects[j].src = effects[k].src
        /\ effects[j].leaf_index = effects[k].leaf_index

\* C33: every temporary image file created for a classification request is
\* removed by the time the call returns, on every exit path (success,
\* non-success status, transport exception), in detect_and_classify_leaf
\* and in process_detections.
C33_TempFilesRemoved ==
    \A k \in 1..Len(effects) :
        effects[k].type = "tmp_write" => RemovedLater(k)

\* process_detections removes every temporary file it writes
C33_AutoTempFilesRemoved ==
    \A k \in 1..Len(effects) :
        (effects[k].type = "tmp_write" /\ effects[k].src = "auto") => RemovedLater(k)

\* detect_and_classify_leaf answered 'API request failed' and left its
\* temporary file behind
C33_WitnessLeftBehind ==
    /\ call.op = "detect_and_classify_leaf"
    /\ call.ret = [kind |-> "error", error |-> "API request failed"]
    /\ \E k \in 1..Len(effects) :
          /\ effects[k].type = "tmp_write"
          /\ effects[k].src = "manual"
          /\ ~RemovedLater(k)

\* process_detections got a non-success status and removed its file
C33_WitnessAutoRemoved ==
    /\ call.op = "get_frame" /\ call.run
    /\ Len(call.results) = 1
    /\ "error" \in DOMAIN call.results[1]
    /\ \E k \in 1..Len(effects) : effects[k].type = "tmp_write" /\ RemovedLater(k)

====
